---- MODULE Spec2Model ----
(***************************************************************************)
(* Order-fulfilment pipeline of bngc-shopify: the "orders/paid" webhook    *)
(* handler of src/server.js (lines 1-481) with its collaborators (Shopify  *)
(* Admin GraphQL, the gift-card worker, SMTP), and the placeholder handler *)
(* of src/unnamed/part_000.                                                *)
(*                                                                         *)
(* Node runs one handler at a time between two awaits, so every action     *)
(* below is the code from one await to the next: the completion of the     *)
(* pending network call and everything the handler does until it suspends  *)
(* again or answers.                                                       *)
(***************************************************************************)
EXTENDS Integers, Sequences, FiniteSets, TLC

\* ------------------------------------------------------------------ bounds
MaxDeliveries == 2      \* deliveries of the webhook (the sender's retries included)
MaxItems == 2           \* line items of the order
MaxQty == 2             \* largest quantity of a line item

Reqs == 1..MaxDeliveries

\* A missing or empty string field is "", a missing string of characters is <<>>,
\* a missing number is <<>> and a present one <<n>>: JavaScript treats null,
\* undefined and "" alike wherever this code tests them (!x, x || y, x ? a : b).

\* ------------------------------------------------------------------ strings
\* A string whose characters matter (a digest, a reference number) is the
\* sequence of its characters.
Stars == <<"*", "*", "*", "*">>
NA == <<"N", "/", "A">>

\* s.slice(-4) of a string of more than 4 characters
Last4(s) == SubSeq(s, Len(s) - 3, Len(s))

\* line 198 with < for <=
maskRef_offByOne(ref) ==
    LET s == ref
    IN  IF Len(s) < 8 THEN Stars ELSE SubSeq(s, 1, 4) \o Stars \o Last4(s)

maskRef(ref) ==
    LET s == ref
    IN  IF Len(s) <= 8 THEN Stars ELSE SubSeq(s, 1, 4) \o Stars \o Last4(s)

\* ------------------------------------------------------------------ signature
\* HMAC-SHA256 in base64, idealised: a string of fixed length that is different
\* for every pair of a body and a secret (no collisions).
hmacBase64(body, secret) == <<"h", body, secret, "=">>

\* crypto.timingSafeEqual: throws on buffers of different length. The result of
\* a comparison is "true", "false" or "throws".
timingSafeEqual(aa, bb) ==
    IF Len(aa) # Len(bb) THEN "throws" ELSE IF aa = bb THEN "true" ELSE "false"

\* timingSafeEqualStr without the length test of line 67
timingSafeEqualStr_noLengthCheck(a, b) == timingSafeEqual(a, b)
timingSafeEqualStr(a, b) ==
    IF Len(a) # Len(b) THEN "false" ELSE timingSafeEqual(a, b)

\* The header is req.get("X-Shopify-Hmac-Sha256") || "": <<>> when missing.
verifyShopifyWebhook(body, hmacHeader, secret) ==
    timingSafeEqualStr(hmacBase64(body, secret), hmacHeader)

\* src/unnamed/part_001: the same check on Buffers built inline
verifyShopifyWebhook_part001(body, hmacHeader, secret) ==
    LET a == hmacBase64(body, secret)
        b == hmacHeader
    IN  IF Len(a) # Len(b) THEN "false" ELSE timingSafeEqual(a, b)

\* ------------------------------------------------------------------ configuration
\* process.env as the process finds it at startup. A variable that is not set
\* or set to the empty string is "", except TEST_MODE: its default is not the
\* empty string, so there a variable that is not set is Unset.
Unset == "<unset>"

GoodEnv ==
    [ SHOPIFY_WEBHOOK_SECRET |-> "whsec",
      SHOPIFY_SHOP_DOMAIN    |-> "shop.myshopify.com",
      SHOPIFY_ADMIN_TOKEN    |-> "shpat",
      SHOPIFY_CLIENT_ID      |-> "",
      SHOPIFY_CLIENT_SECRET  |-> "",
      BNGC_WORKER_URL        |-> "https://worker",
      BNGC_WORKER_SECRET     |-> "access",
      SMTP_USER              |-> "user",
      SMTP_PASS              |-> "pass",
      SENDER_EMAIL           |-> "shop@shvilli.com",
      TEST_MODE              |-> "false" ]

Envs ==
    { GoodEnv,
      [GoodEnv EXCEPT !.SHOPIFY_WEBHOOK_SECRET = ""],
      [GoodEnv EXCEPT !.SHOPIFY_SHOP_DOMAIN = ""],
      [GoodEnv EXCEPT !.SHOPIFY_SHOP_DOMAIN = "https://"],
      [GoodEnv EXCEPT !.SHOPIFY_ADMIN_TOKEN = ""],
      [GoodEnv EXCEPT !.SHOPIFY_ADMIN_TOKEN = " "],
      [GoodEnv EXCEPT !.SHOPIFY_ADMIN_TOKEN = "",
                      !.SHOPIFY_CLIENT_ID = "client", !.SHOPIFY_CLIENT_SECRET = "csecret"],
      [GoodEnv EXCEPT !.SHOPIFY_SHOP_DOMAIN = "https://shop.myshopify.com/"],
      [GoodEnv EXCEPT !.BNGC_WORKER_SECRET = ""],
      [GoodEnv EXCEPT !.SMTP_PASS = ""],
      [GoodEnv EXCEPT !.TEST_MODE = "TRUE", !.BNGC_WORKER_URL = "", !.BNGC_WORKER_SECRET = ""],
      [GoodEnv EXCEPT !.TEST_MODE = "true"],
      [GoodEnv EXCEPT !.TEST_MODE = Unset] }

OAuthEnv ==
    [GoodEnv EXCEPT !.SHOPIFY_ADMIN_TOKEN = "",
                    !.SHOPIFY_CLIENT_ID = "client", !.SHOPIFY_CLIENT_SECRET = "csecret"]
RedeliveryEnvs == {GoodEnv, OAuthEnv}

\* String(domain || "").trim() without the scheme and the trailing slashes
normalizeShopDomain(domain) ==
    CASE domain = "https://" -> ""
      [] domain = "https://shop.myshopify.com/" -> "shop.myshopify.com"
      [] OTHER -> domain

\* String(v || "").trim()
safeToken(v) == IF v = " " THEN "" ELSE v

\* String(TEST_MODE).toLowerCase()
toLowerCase(v) == IF v = "TRUE" THEN "true" ELSE v

\* ------------------------------------------------------------------ the shop
\* Product metafields of namespace bngc as the platform stores them: the value of
\* enabled ("" when the metafield is missing) and of cost_amount (<<>> when
\* missing, <<n>> for the decimal string of n).
ProductIds == {"gift", "fixed", "zero", "neg", "off"}

ProductMetafields(productId) ==
    CASE productId = "gift"  -> [enabled |-> "true",  cost |-> <<>>]
      [] productId = "fixed" -> [enabled |-> "true",  cost |-> <<5>>]
      [] productId = "zero"  -> [enabled |-> "true",  cost |-> <<0>>]
      [] productId = "neg"   -> [enabled |-> "true",  cost |-> <<-5>>]
      [] productId = "off"   -> [enabled |-> "false", cost |-> <<5>>]
      [] OTHER               -> [enabled |-> "",      cost |-> <<>>]

\* A line item of the payload: product_id ("" when missing), quantity (0 when
\* missing) and price. The quantity varies for the product issued at its price,
\* the price where the product has no positive cost amount.
Prices == {0, 10}
LineItems ==
    [product_id : {"gift"}, quantity : 0..MaxQty, price : Prices]
    \cup [product_id : {"gift"}, quantity : {-1}, price : {10}]
    \cup [product_id : {"zero"}, quantity : {1}, price : Prices]
    \cup [product_id : {"fixed", "neg", "off", ""}, quantity : {1}, price : {10}]

SeqsUpTo(S, n) == UNION { [1..k -> S] : k \in 0..n }

\* order.email and order.customer.email
Recipients == { [email |-> "buyer@mail", customer_email |-> ""],
                [email |-> "", customer_email |-> "customer@mail"],
                [email |-> "", customer_email |-> ""] }

\* Every list of line items for a buyer with order.email, the lists of at most
\* one line item for the other recipients.
Orders ==
    { [id |-> "order1", email |-> "buyer@mail", customer_email |-> "",
       line_items |-> li] : li \in SeqsUpTo(LineItems, MaxItems) }
    \cup
    { [id |-> "order1", email |-> rc.email, customer_email |-> rc.customer_email,
       line_items |-> li] : rc \in Recipients, li \in SeqsUpTo(LineItems, 1) }

\* The orders every configuration and every number of deliveries is tried with.
Item(p, q, a) == [product_id |-> p, quantity |-> q, price |-> a]
Order(email, items) ==
    [id |-> "order1", email |-> email, customer_email |-> "", line_items |-> items]
SampleOrders ==
    { Order("buyer@mail", <<Item("gift", MaxQty, 10), Item("fixed", 1, 10)>>),
      Order("buyer@mail", <<Item("off", 1, 10), Item("gift", 1, 10)>>),
      Order("buyer@mail", <<Item("zero", 1, 0)>>),
      Order("", <<Item("gift", 1, 10)>>) }

\* The orders and configurations several deliveries are tried with.
RedeliveredOrders ==
    { Order("buyer@mail", <<Item("gift", 1, 10)>>),
      Order("", <<Item("gift", 1, 10)>>) }

\* The raw body of the webhook; the deliveries of one order carry the same body.
RawBody(o) == o.id

\* What a caller can put in X-Shopify-Hmac-Sha256.
Headers(o, e) ==
    { hmacBase64(RawBody(o), e.SHOPIFY_WEBHOOK_SECRET),
      <<>>,
      hmacBase64("tampered", e.SHOPIFY_WEBHOOK_SECRET),
      hmacBase64(RawBody(o), "guess"),
      <<"h", RawBody(o)>> }

\* ------------------------------------------------------------------ state
VARIABLES
    env,                  \* the configuration the process started with
    SHOPIFY_OAUTH_TOKEN,  \* the in-memory token of line 50
    order,                \* the paid order's payload
    deliveries,           \* how often the sender delivers the webhook of this order
    arrived,              \* deliveries of the webhook received so far
    metafields,           \* the order's bngc metafields on the platform
    cards,                \* per delivery: the gift cards the issuer created for it
    mailbox,              \* per delivery: the mails delivered to the customer
    req,                  \* per delivery: the handler's frame (locals, answer, trace)
    observed,             \* per delivery: what the platform held and answered
    sig,                  \* the signature check applied to arbitrary inputs
    masked                \* maskRef applied to arbitrary reference numbers

vars ==
    <<env, SHOPIFY_OAUTH_TOKEN, order, deliveries, arrived, metafields, cards, mailbox,
      req, observed, sig, masked>>

\* pc is the await the handler is suspended at ("idle" before the request,
\* "done" once answered); status 0 means no answer yet. reads, writes, calls and
\* console record the GraphQL queries, the metafieldsSet mutations and the
\* issuance calls the request made, and what it printed.
IdleFrame ==
    [ pc |-> "idle", hdr |-> <<>>, item |-> 0, i |-> 0, qty |-> 0, unitAmount |-> 0,
      allCodes |-> <<>>, maskedRefs |-> <<>>, amountPerCodeForEmail |-> <<>>,
      status |-> 0, body |-> "",
      reads |-> 0, writes |-> 0, calls |-> <<>>, console |-> <<>> ]

\* after: the deliveries already answered when the delivery arrived;
\* sentBefore: the order's sent metafield when the delivery arrived; sentRead,
\* productRead and writeResult: the platform's answer to the delivery's
\* idempotency query, to its latest product query and to its metafieldsSet
\* mutation; mailResult: how its sendMail ended ("" while there is none).
NotObserved ==
    [after |-> {}, sentBefore |-> "", sentRead |-> "", productRead |-> "",
     mailResult |-> "", writeResult |-> ""]

NoMetafields == [sent |-> "", reference_nos |-> <<>>, sent_at |-> <<>>]

Min(S) == CHOOSE x \in S : \A y \in S : x <= y

\* ------------------------------------------------------------------ the handler
\* res.status(status).send(body)
answer(f, status, body) == [f EXCEPT !.pc = "done", !.status = status, !.body = body]

\* console.log / console.error; codes are the gift-card codes the line prints
logged(f, stream, text, detail) ==
    [f EXCEPT !.console =
        Append(@, [stream |-> stream, text |-> text, detail |-> detail, codes |-> <<>>])]

\* lines 471-474 answering 200 so that the sender does not retry
caught_answers200(f, message) ==
    answer(logged(f, "error", "WEBHOOK ERROR:", message), 200, "Error")

\* catch (e) of lines 471-474
caught(f, message) == answer(logged(f, "error", "WEBHOOK ERROR:", message), 500, "Error")

\* shopifyGraphQL up to its fetch (lines 100-116): kind is "reads" or "writes"
shopifyGraphQL(f, op, kind) ==
    IF normalizeShopDomain(env.SHOPIFY_SHOP_DOMAIN) = ""
    THEN caught(f, "Missing/invalid SHOPIFY_SHOP_DOMAIN")
    ELSE IF safeToken(env.SHOPIFY_ADMIN_TOKEN) = "" /\ safeToken(SHOPIFY_OAUTH_TOKEN) = ""
    THEN caught(f, "Missing Shopify token")
    ELSE IF kind = "reads"
    THEN [f EXCEPT !.pc = op, !.reads = @ + 1]
    ELSE [f EXCEPT !.pc = op, !.writes = @ + 1]

\* line 400 testing SHOPIFY_ADMIN_TOKEN alone
onRequest_adminTokenOnly(f, h) ==
    LET f1 == [f EXCEPT !.hdr = h]
        ok == verifyShopifyWebhook(RawBody(order), h, env.SHOPIFY_WEBHOOK_SECRET)
    IN  IF env.SHOPIFY_WEBHOOK_SECRET = ""
        THEN answer(f1, 500, "Missing SHOPIFY_WEBHOOK_SECRET")
        ELSE IF env.SHOPIFY_SHOP_DOMAIN = ""
        THEN answer(f1, 500, "Missing SHOPIFY_SHOP_DOMAIN")
        ELSE IF env.SHOPIFY_ADMIN_TOKEN = ""
        THEN answer(f1, 500, "Missing Shopify token")
        ELSE IF ok = "throws"
        THEN caught(f1, "Input buffers must have the same byte length")
        ELSE IF ok = "false"
        THEN answer(f1, 401, "Invalid webhook signature")
        ELSE shopifyGraphQL(f1, "isOrderAlreadySent", "reads")

\* lines 397-409 without the test of line 398
onRequest_noSecretCheck(f, h) ==
    LET f1 == [f EXCEPT !.hdr = h]
        ok == verifyShopifyWebhook(RawBody(order), h, env.SHOPIFY_WEBHOOK_SECRET)
    IN  IF env.SHOPIFY_SHOP_DOMAIN = ""
        THEN answer(f1, 500, "Missing SHOPIFY_SHOP_DOMAIN")
        ELSE IF env.SHOPIFY_ADMIN_TOKEN = "" /\ SHOPIFY_OAUTH_TOKEN = ""
        THEN answer(f1, 500, "Missing Shopify token")
        ELSE IF ok = "throws"
        THEN caught(f1, "Input buffers must have the same byte length")
        ELSE IF ok = "false"
        THEN answer(f1, 401, "Invalid webhook signature")
        ELSE shopifyGraphQL(f1, "isOrderAlreadySent", "reads")

\* lines 397-409: from the request to the first await
onRequest(f, h) ==
    LET f1 == [f EXCEPT !.hdr = h]
        ok == verifyShopifyWebhook(RawBody(order), h, env.SHOPIFY_WEBHOOK_SECRET)
    IN  IF env.SHOPIFY_WEBHOOK_SECRET = ""
        THEN answer(f1, 500, "Missing SHOPIFY_WEBHOOK_SECRET")
        ELSE IF env.SHOPIFY_SHOP_DOMAIN = ""
        THEN answer(f1, 500, "Missing SHOPIFY_SHOP_DOMAIN")
        ELSE IF env.SHOPIFY_ADMIN_TOKEN = "" /\ SHOPIFY_OAUTH_TOKEN = ""
        THEN answer(f1, 500, "Missing Shopify token")
        ELSE IF ok = "throws"
        THEN caught(f1, "Input buffers must have the same byte length")
        ELSE IF ok = "false"
        THEN answer(f1, 401, "Invalid webhook signature")
        ELSE shopifyGraphQL(f1, "isOrderAlreadySent", "reads")

\* sendEmailSMTP up to sendMail (lines 256-262)
sendEmailSMTP(f) ==
    IF env.SMTP_USER = "" \/ env.SMTP_PASS = "" \/ env.SENDER_EMAIL = ""
    THEN caught(f, "Missing SMTP env vars")
    ELSE [f EXCEPT !.pc = "sendMail"]

\* lines 450-467 recording the fulfilment before the notification is sent
afterLoop_persistFirst(f) ==
    IF Len(f.allCodes) = 0
    THEN answer(logged(f, "log", "No bngc-enabled items in order:", order.id),
                200, "No giftcard items")
    ELSE shopifyGraphQL(f, "setOrderMetafields", "writes")

\* lines 450-464 without the return of lines 450-453
afterLoop_noEmptyCheck(f) == sendEmailSMTP(f)

\* lines 450-464: after the loop over the line items
afterLoop(f) ==
    IF Len(f.allCodes) = 0
    THEN answer(logged(f, "log", "No bngc-enabled items in order:", order.id),
                200, "No giftcard items")
    ELSE sendEmailSMTP(f)

\* lines 426-429: the loop from the k-th line item to its next await
forItems(f, k) ==
    LET rest == { j \in k..Len(order.line_items) : order.line_items[j].product_id # "" }
    IN  IF rest = {}
        THEN afterLoop(f)
        ELSE shopifyGraphQL([f EXCEPT !.item = Min(rest)], "getProductBngc", "reads")

\* order.email || order.customer?.email
customerEmail(o) == IF o.email # "" THEN o.email ELSE o.customer_email

\* line 138 comparing the value with "1" instead of "true"
isOrderAlreadySent_wrongLiteral(data) == data.sent = "1"

\* isOrderAlreadySent's answer (line 138) and lines 409-418
isOrderAlreadySent(data) == data.sent = "true"

\* lines 409-412 also answering "Already sent" while another delivery of the
\* order is between its idempotency check and its answer
onIsOrderAlreadySent_locked(f, result) ==
    IF result.error
    THEN caught(f, "Shopify GraphQL error")
    ELSE IF \/ isOrderAlreadySent(result.data)
            \/ \E r \in Reqs : req[r].pc \in {"getProductBngc", "createGiftCard",
                                               "sendMail", "setOrderMetafields"}
    THEN answer(logged(f, "log", "Already processed order:", order.id), 200, "Already sent")
    ELSE IF customerEmail(order) = ""
    THEN answer(logged(f, "log", "No customer email for order:", order.id), 200, "No email")
    ELSE forItems(f, 1)

\* lines 409-412 also answering "Already sent" once a delivery of the order has
\* sent its notification
onIsOrderAlreadySent_remembers(f, result) ==
    IF result.error
    THEN caught(f, "Shopify GraphQL error")
    ELSE IF isOrderAlreadySent(result.data) \/ \E r \in Reqs : mailbox[r] # <<>>
    THEN answer(logged(f, "log", "Already processed order:", order.id), 200, "Already sent")
    ELSE IF customerEmail(order) = ""
    THEN answer(logged(f, "log", "No customer email for order:", order.id), 200, "No email")
    ELSE forItems(f, 1)

\* lines 409-418 without the return of lines 409-412
onIsOrderAlreadySent_noIdempotency(f, result) ==
    IF result.error
    THEN caught(f, "Shopify GraphQL error")
    ELSE IF customerEmail(order) = ""
    THEN answer(logged(f, "log", "No customer email for order:", order.id), 200, "No email")
    ELSE forItems(f, 1)

\* lines 409-418 without the return of lines 415-418
onIsOrderAlreadySent_recipientUnchecked(f, result) ==
    IF result.error
    THEN caught(f, "Shopify GraphQL error")
    ELSE IF isOrderAlreadySent(result.data)
    THEN answer(logged(f, "log", "Already processed order:", order.id), 200, "Already sent")
    ELSE forItems(f, 1)

onIsOrderAlreadySent(f, result) ==
    IF result.error
    THEN caught(f, "Shopify GraphQL error")
    ELSE IF isOrderAlreadySent(result.data)
    THEN answer(logged(f, "log", "Already processed order:", order.id), 200, "Already sent")
    ELSE IF customerEmail(order) = ""
    THEN answer(logged(f, "log", "No customer email for order:", order.id), 200, "No email")
    ELSE forItems(f, 1)

\* lines 190-192 with enabled taken as true whatever the metafield holds
getProductBngc_alwaysEnabled(data) ==
    [enabled |-> TRUE, costAmount |-> data.cost]

\* lines 190-192
getProductBngc(data) ==
    [enabled |-> data.enabled = "true", costAmount |-> data.cost]

\* line 432 ignoring item.quantity
itemQty_one(item) == 1

\* line 432 without Math.max
itemQty_noClamp(item) == item.quantity

\* Math.max(1, Number(item.quantity || 1)); a missing quantity is 0, which
\* item.quantity || 1 treats as it treats undefined
itemQty(item) ==
    LET n == IF item.quantity = 0 THEN 1 ELSE item.quantity
    IN  IF n < 1 THEN 1 ELSE n

\* line 433 taking the item's price when it is positive and the cost amount
\* otherwise
itemUnitAmount_priceFirst(item, costAmount) ==
    IF item.price > 0 THEN item.price
    ELSE IF costAmount # <<>> THEN costAmount[1] ELSE 0

\* (costAmount && costAmount > 0) ? costAmount : Number(item.price || 0)
itemUnitAmount(item, costAmount) ==
    IF costAmount # <<>> /\ costAmount[1] > 0 THEN costAmount[1] ELSE item.price

\* line 436 keeping the amount of the first item issued
onGetProductBngc_firstAmount(f, result) ==
    LET item == order.line_items[f.item]
        p == getProductBngc(result.data)
        unitAmount == itemUnitAmount(item, p.costAmount)
    IN  IF result.error
        THEN caught(f, "Shopify GraphQL error")
        ELSE IF ~p.enabled
        THEN forItems(f, f.item + 1)
        ELSE IF unitAmount <= 0
        THEN forItems(f, f.item + 1)
        ELSE LET g == [f EXCEPT !.qty = itemQty(item), !.unitAmount = unitAmount,
                                !.amountPerCodeForEmail =
                                    IF f.amountPerCodeForEmail = <<>> THEN <<unitAmount>>
                                    ELSE @,
                                !.i = 0]
             IN  IF g.i < g.qty THEN [g EXCEPT !.pc = "createGiftCard"]
                 ELSE forItems(g, g.item + 1)

\* lines 429-438: the product's metafields arrive
onGetProductBngc(f, result) ==
    LET item == order.line_items[f.item]
        p == getProductBngc(result.data)
        unitAmount == itemUnitAmount(item, p.costAmount)
    IN  IF result.error
        THEN caught(f, "Shopify GraphQL error")
        ELSE IF ~p.enabled
        THEN forItems(f, f.item + 1)
        ELSE IF unitAmount <= 0
        THEN forItems(f, f.item + 1)
        ELSE LET g == [f EXCEPT !.qty = itemQty(item), !.unitAmount = unitAmount,
                                !.amountPerCodeForEmail = <<unitAmount>>, !.i = 0]
             IN  IF g.i < g.qty THEN [g EXCEPT !.pc = "createGiftCard"]
                 ELSE forItems(g, g.item + 1)

\* lines 439-447 going on to the next unit when a call fails or yields no code
onGiftCard_continueOnFailure(f, gc) ==
    LET f1 == [f EXCEPT !.calls = Append(@, [item |-> f.item, amount |-> f.unitAmount,
                                             gc |-> gc])]
        f2 == IF gc.threw \/ gc.code = <<>>
              THEN [f1 EXCEPT !.i = @ + 1]
              ELSE [f1 EXCEPT
                      !.allCodes = Append(@, gc.code[1]),
                      !.maskedRefs = Append(@, maskRef(IF gc.referenceNo = <<>> THEN NA
                                                        ELSE gc.referenceNo)),
                      !.i = @ + 1]
    IN  IF f2.i < f2.qty THEN f2 ELSE forItems(f2, f2.item + 1)

\* line 446 pushing the reference number without maskRef
onGiftCard_unmaskedRef(f, gc) ==
    LET f1 == [f EXCEPT !.calls = Append(@, [item |-> f.item, amount |-> f.unitAmount,
                                             gc |-> gc])]
    IN  IF gc.threw
        THEN caught(f1, "Cloudflare Worker error")
        ELSE IF gc.code = <<>>
        THEN caught(f1, "Giftcard failed (no code)")
        ELSE LET f2 == [f1 EXCEPT
                          !.allCodes = Append(@, gc.code[1]),
                          !.maskedRefs = Append(@, IF gc.referenceNo = <<>> THEN NA
                                                   ELSE gc.referenceNo),
                          !.i = @ + 1]
             IN  IF f2.i < f2.qty THEN f2 ELSE forItems(f2, f2.item + 1)

\* line 446 with unshift for push
onGiftCard_refsFirst(f, gc) ==
    LET f1 == [f EXCEPT !.calls = Append(@, [item |-> f.item, amount |-> f.unitAmount,
                                             gc |-> gc])]
    IN  IF gc.threw
        THEN caught(f1, "Cloudflare Worker error")
        ELSE IF gc.code = <<>>
        THEN caught(f1, "Giftcard failed (no code)")
        ELSE LET f2 == [f1 EXCEPT
                          !.allCodes = Append(@, gc.code[1]),
                          !.maskedRefs = <<maskRef(IF gc.referenceNo = <<>> THEN NA
                                                   ELSE gc.referenceNo)>> \o @,
                          !.i = @ + 1]
             IN  IF f2.i < f2.qty THEN f2 ELSE forItems(f2, f2.item + 1)

\* lines 439-447 without the test of gc.code (lines 441-443)
onGiftCard_noCodeCheck(f, gc) ==
    LET f1 == [f EXCEPT !.calls = Append(@, [item |-> f.item, amount |-> f.unitAmount,
                                             gc |-> gc])]
    IN  IF gc.threw
        THEN caught(f1, "Cloudflare Worker error")
        ELSE LET f2 == [f1 EXCEPT
                          !.allCodes = Append(@, IF gc.code = <<>> THEN <<>> ELSE gc.code[1]),
                          !.maskedRefs = Append(@, maskRef(IF gc.referenceNo = <<>> THEN NA
                                                            ELSE gc.referenceNo)),
                          !.i = @ + 1]
             IN  IF f2.i < f2.qty THEN f2 ELSE forItems(f2, f2.item + 1)

\* lines 439-447: the issuer's answer gc arrives (gc.threw: the call failed)
onGiftCard(f, gc) ==
    LET f1 == [f EXCEPT !.calls = Append(@, [item |-> f.item, amount |-> f.unitAmount,
                                             gc |-> gc])]
    IN  IF gc.threw
        THEN caught(f1, "Cloudflare Worker error")
        ELSE IF gc.code = <<>>
        THEN caught(f1, "Giftcard failed (no code)")
        ELSE LET f2 == [f1 EXCEPT
                          !.allCodes = Append(@, gc.code[1]),
                          !.maskedRefs = Append(@, maskRef(IF gc.referenceNo = <<>> THEN NA
                                                            ELSE gc.referenceNo)),
                          !.i = @ + 1]
             IN  IF f2.i < f2.qty THEN f2 ELSE forItems(f2, f2.item + 1)

\* line 460 passing the code issued last instead of allCodes
buildEmail_lastCode(f) ==
    [to |-> customerEmail(order), codes |-> <<f.allCodes[Len(f.allCodes)]>>,
     amountPerCode |-> f.amountPerCodeForEmail]

\* lines 456-464: the notification, its html reduced to what buildEmailHtml puts
\* in it
buildEmail(f) ==
    [to |-> customerEmail(order), codes |-> f.allCodes,
     amountPerCode |-> f.amountPerCodeForEmail]

\* lines 456-467 going on to setOrderMetafields when sendMail rejected
onSendMail_ignoreFailure(f, failed) ==
    shopifyGraphQL(f, "setOrderMetafields", "writes")

\* lines 456-465 starting the handler again from the idempotency query when
\* sendMail rejected
onSendMail_startOver(f, failed) ==
    IF failed
    THEN shopifyGraphQL(f, "isOrderAlreadySent", "reads")
    ELSE shopifyGraphQL(f, "setOrderMetafields", "writes")

\* lines 456-467: sendMail returned
onSendMail(f, failed) ==
    IF failed
    THEN caught(f, "SMTP error")
    ELSE shopifyGraphQL(f, "setOrderMetafields", "writes")

\* lines 173-175 without the throw on userErrors
onSetOrderMetafields_ignoreUserErrors(f, result) ==
    IF result = "error"
    THEN caught(f, "Shopify GraphQL error")
    ELSE answer(logged(f, "log", "SUCCESS order:", order.id), 200, "OK")

\* lines 469-470 without the answer
onSetOrderMetafields_noAnswer(f, result) ==
    IF result # "ok"
    THEN caught(f, IF result = "userErrors" THEN "MetafieldsSet error"
                                            ELSE "Shopify GraphQL error")
    ELSE [logged(f, "log", "SUCCESS order:", order.id) EXCEPT !.pc = "returned"]

\* lines 173-175 and 469-470: the mutation's answer arrives
onSetOrderMetafields(f, result) ==
    IF result # "ok"
    THEN caught(f, IF result = "userErrors" THEN "MetafieldsSet error"
                                            ELSE "Shopify GraphQL error")
    ELSE answer(logged(f, "log", "SUCCESS order:", order.id), 200, "OK")

\* ------------------------------------------------------------------ the issuer
Digits == <<"0", "1", "2", "3", "4", "5", "6", "7", "8", "9">>
D(n) == Digits[(n % 10) + 1]

\* The code of the n-th gift card asked for by delivery r: every issuance yields a
\* new code; a test code is `TEST-CODE-${...}` (line 210).
Card(r, n, kind) ==
    IF kind = "test"
    THEN <<"T", "E", "S", "T", "-", "C", "O", "D", "E", "-", D(r), D(n)>>
    ELSE <<"G", "C", "-", D(r), "-", D(n)>>
LiveRef(r, n) == <<"R", "F", D(r), "-", "7", "7", "7", "7", "-", D(n)>>
TestRef(r, n) == <<"T", "E", "S", "T", "-", "R", "E", "F", "-", D(r), "-", D(n)>>

\* What the worker can answer: res.ok and the JSON body, direct
\* ({code, referenceNo}) or wrapped ({success: true, data: {...}}). The answers
\* without a reference number and the wrapped ones are tried on the first call
\* of a delivery.
WorkerResponses(r, n) ==
    LET c == <<Card(r, n, "live")>>
        none == [ok |-> TRUE, success |-> FALSE, data |-> <<>>,
                 code |-> <<>>, referenceNo |-> <<>>]
    IN  { [none EXCEPT !.ok = FALSE],
          [none EXCEPT !.code = c, !.referenceNo = LiveRef(r, n)],
          none }
        \cup
        IF n > 1 THEN {}
        ELSE { [none EXCEPT !.code = c],
               [none EXCEPT !.success = TRUE,
                            !.data = <<[code |-> c, referenceNo |-> LiveRef(r, n)]>>],
               [none EXCEPT !.success = TRUE,
                            !.data = <<[code |-> <<>>, referenceNo |-> LiveRef(r, n)]>>],
               [none EXCEPT !.success = TRUE] }

\* The constant TEST_MODE of the destructuring of lines 21-46: "false" when the
\* variable is not set (line 45).
TEST_MODE == IF env.TEST_MODE = Unset THEN "false" ELSE env.TEST_MODE

\* lines 206-239 with the test of the worker settings (lines 216-218) before
\* the test of TEST_MODE
createBinanceGiftCardViaWorker_settingsFirst(r, n, response) ==
    IF env.BNGC_WORKER_URL = "" \/ env.BNGC_WORKER_SECRET = ""
    THEN [threw |-> TRUE, network |-> FALSE, code |-> <<>>, referenceNo |-> <<>>]
    ELSE IF toLowerCase(TEST_MODE) = "true"
    THEN [threw |-> FALSE, network |-> FALSE,
          code |-> <<Card(r, n, "test")>>, referenceNo |-> TestRef(r, n)]
    ELSE IF ~response.ok
    THEN [threw |-> TRUE, network |-> TRUE, code |-> <<>>, referenceNo |-> <<>>]
    ELSE IF response.success /\ response.data # <<>>
    THEN [threw |-> FALSE, network |-> TRUE,
          code |-> response.data[1].code, referenceNo |-> response.data[1].referenceNo]
    ELSE [threw |-> FALSE, network |-> TRUE,
          code |-> response.code, referenceNo |-> response.referenceNo]

\* lines 206-239. network: the call reached the worker
createBinanceGiftCardViaWorker(r, n, response) ==
    IF toLowerCase(TEST_MODE) = "true"
    THEN [threw |-> FALSE, network |-> FALSE,
          code |-> <<Card(r, n, "test")>>, referenceNo |-> TestRef(r, n)]
    ELSE IF env.BNGC_WORKER_URL = "" \/ env.BNGC_WORKER_SECRET = ""
    THEN [threw |-> TRUE, network |-> FALSE, code |-> <<>>, referenceNo |-> <<>>]
    ELSE IF ~response.ok
    THEN [threw |-> TRUE, network |-> TRUE, code |-> <<>>, referenceNo |-> <<>>]
    ELSE IF response.success /\ response.data # <<>>
    THEN [threw |-> FALSE, network |-> TRUE,
          code |-> response.data[1].code, referenceNo |-> response.data[1].referenceNo]
    ELSE [threw |-> FALSE, network |-> TRUE,
          code |-> response.code, referenceNo |-> response.referenceNo]

\* ------------------------------------------------------------------ the platform
\* maskedRefs.join("\n")
RECURSIVE join(_)
join(lines) ==
    IF Len(lines) = 0 THEN <<>>
    ELSE IF Len(lines) = 1 THEN lines[1]
    ELSE lines[1] \o <<"\n">> \o join(Tail(lines))

\* line 155 with the value "false"
setOrderMetafields_sentFalse(maskedRefs, now) ==
    [sent |-> "false", reference_nos |-> join(maskedRefs), sent_at |-> <<now>>]

\* lines 149-171 with the sent metafield alone in the mutation
setOrderMetafields_sentOnly(maskedRefs, now) ==
    [sent |-> "true", reference_nos |-> <<>>, sent_at |-> <<>>]

\* lines 149-171: the three metafields of one metafieldsSet mutation
setOrderMetafields(maskedRefs, now) ==
    [sent |-> "true", reference_nos |-> join(maskedRefs), sent_at |-> <<now>>]

\* ------------------------------------------------------------------ actions
NoSig == [body |-> "", header |-> <<>>, secret |-> "", applied |-> FALSE,
          result |-> "", result001 |-> ""]
NoMask == [ref |-> <<>>, applied |-> FALSE, result |-> <<>>]

\* Every order is delivered once to a fully configured process, the sample
\* orders once under every configuration, and the redelivered orders up to
\* MaxDeliveries times.
Init ==
    /\ \/ env = GoodEnv /\ order \in Orders /\ deliveries = 1
       \/ env \in Envs /\ order \in SampleOrders /\ deliveries = 1
       \/ env \in RedeliveryEnvs /\ order \in RedeliveredOrders
          /\ deliveries \in 2..MaxDeliveries
    /\ SHOPIFY_OAUTH_TOKEN = ""
    /\ arrived = 0
    /\ metafields = NoMetafields
    /\ cards = [r \in Reqs |-> <<>>]
    /\ mailbox = [r \in Reqs |-> <<>>]
    /\ req = [r \in Reqs |-> IdleFrame]
    /\ observed = [r \in Reqs |-> NotObserved]
    /\ sig = NoSig
    /\ masked = NoMask

\* A delivery of the webhook arrives (lines 396-409).
Receive(r) ==
    /\ req[r].pc = "idle"
    /\ r = arrived + 1
    /\ r <= deliveries
    /\ arrived' = r
    /\ \E h \in Headers(order, env) : req' = [req EXCEPT ![r] = onRequest(req[r], h)]
    /\ observed' = [observed EXCEPT
                       ![r].after = { r1 \in Reqs : req[r1].pc = "done" },
                       ![r].sentBefore = IF metafields.sent = "true" THEN "true" ELSE "false"]
    /\ UNCHANGED <<env, SHOPIFY_OAUTH_TOKEN, order, deliveries, metafields, cards, mailbox,
                   sig, masked>>

\* The query of isOrderAlreadySent is answered (lines 129-139, 409-429).
IsOrderAlreadySentReturns(r) ==
    /\ req[r].pc = "isOrderAlreadySent"
    /\ \E error \in BOOLEAN :
         /\ req' = [req EXCEPT ![r] =
                      onIsOrderAlreadySent(req[r], [error |-> error,
                                                    data |-> [sent |-> metafields.sent]])]
         /\ observed' = [observed EXCEPT ![r].sentRead =
                            IF error THEN "error"
                            ELSE IF metafields.sent = "true" THEN "true" ELSE "false"]
    /\ UNCHANGED <<env, SHOPIFY_OAUTH_TOKEN, order, deliveries, arrived, metafields, cards,
                   mailbox, sig, masked>>

\* The query of getProductBngc is answered (lines 179-193, 429-439).
GetProductBngcReturns(r) ==
    /\ req[r].pc = "getProductBngc"
    /\ \E error \in BOOLEAN :
         /\ req' = [req EXCEPT ![r] =
                      onGetProductBngc(req[r],
                          [error |-> error,
                           data |-> ProductMetafields(
                                        order.line_items[req[r].item].product_id)])]
         /\ observed' = [observed EXCEPT ![r].productRead = IF error THEN "error" ELSE "ok"]
    /\ UNCHANGED <<env, SHOPIFY_OAUTH_TOKEN, order, deliveries, arrived, metafields, cards,
                   mailbox, sig, masked>>

\* One issuance call returns (lines 206-239, 439-447).
CreateGiftCardReturns(r) ==
    /\ req[r].pc = "createGiftCard"
    /\ \E response \in WorkerResponses(r, Len(req[r].calls) + 1) :
         LET gc == createBinanceGiftCardViaWorker(r, Len(req[r].calls) + 1, response)
         IN  /\ req' = [req EXCEPT ![r] = onGiftCard(req[r], gc)]
             /\ cards' = IF gc.network /\ ~gc.threw /\ gc.code # <<>>
                         THEN [cards EXCEPT ![r] =
                                 Append(@, [code |-> gc.code[1],
                                            amount |-> req[r].unitAmount,
                                            referenceNo |-> gc.referenceNo])]
                         ELSE cards
    /\ UNCHANGED <<env, SHOPIFY_OAUTH_TOKEN, order, deliveries, arrived, metafields, mailbox,
                   observed, sig, masked>>

\* transporter.sendMail returns (lines 261-267, 456-467).
SendMailReturns(r) ==
    /\ req[r].pc = "sendMail"
    /\ \E failed \in BOOLEAN :
         /\ req' = [req EXCEPT ![r] = onSendMail(req[r], failed)]
         /\ mailbox' = IF failed THEN mailbox
                       ELSE [mailbox EXCEPT ![r] = Append(@, buildEmail(req[r]))]
         /\ observed' = [observed EXCEPT ![r].mailResult = IF failed THEN "failed" ELSE "sent"]
    /\ UNCHANGED <<env, SHOPIFY_OAUTH_TOKEN, order, deliveries, arrived, metafields, cards,
                   sig, masked>>

\* The metafieldsSet mutation is answered (lines 142-176, 467-470).
SetOrderMetafieldsReturns(r) ==
    /\ req[r].pc = "setOrderMetafields"
    /\ \E result \in {"ok", "error", "userErrors"} :
         /\ req' = [req EXCEPT ![r] = onSetOrderMetafields(req[r], result)]
         /\ metafields' = IF result = "ok"
                          THEN setOrderMetafields(req[r].maskedRefs, r)
                          ELSE metafields
         /\ observed' = [observed EXCEPT ![r].writeResult = result]
    /\ UNCHANGED <<env, SHOPIFY_OAUTH_TOKEN, order, deliveries, arrived, cards, mailbox, sig, masked>>

\* GET /auth/shopify/callback stores the token it obtained (lines 353-390).
OAuthCallback ==
    /\ env.SHOPIFY_CLIENT_ID # "" /\ env.SHOPIFY_CLIENT_SECRET # ""
    /\ SHOPIFY_OAUTH_TOKEN' = "shpua"
    /\ UNCHANGED <<env, order, deliveries, arrived, metafields, cards, mailbox, req,
                   observed, sig, masked>>

Next ==
    \/ \E r \in Reqs : Receive(r)
    \/ \E r \in Reqs : IsOrderAlreadySentReturns(r)
    \/ \E r \in Reqs : GetProductBngcReturns(r)
    \/ \E r \in Reqs : CreateGiftCardReturns(r)
    \/ \E r \in Reqs : SendMailReturns(r)
    \/ \E r \in Reqs : SetOrderMetafieldsReturns(r)
    \/ OAuthCallback

Spec == Init /\ [][Next]_vars

\* Every call a handler awaits (fetch, sendMail) ends, with an answer or with an
\* error, and Node then resumes the handler: a delivery suspended at an await
\* takes its next step.
Fairness ==
    \A r \in Reqs :
        /\ WF_vars(IsOrderAlreadySentReturns(r))
        /\ WF_vars(GetProductBngcReturns(r))
        /\ WF_vars(CreateGiftCardReturns(r))
        /\ WF_vars(SendMailReturns(r))
        /\ WF_vars(SetOrderMetafieldsReturns(r))

SpecLive == Spec /\ Fairness

\* ------------------------------------------------------------------ part_000
\* src/unnamed/part_000, lines 10-13: the handler answers every request, whatever
\* its header h, without looking at it.
webhookReceived_part000(f, h) ==
    answer(logged([f EXCEPT !.hdr = h], "log", "orders/paid webhook received (TEST MODE)", ""),
           200, "OK")

ReceiveStub(r) ==
    /\ req[r].pc = "idle"
    /\ r = arrived + 1
    /\ r <= deliveries
    /\ arrived' = r
    /\ \E h \in Headers(order, env) :
         req' = [req EXCEPT ![r] = webhookReceived_part000(req[r], h)]
    /\ UNCHANGED <<env, SHOPIFY_OAUTH_TOKEN, order, deliveries, metafields, cards, mailbox,
                   observed, sig, masked>>

NextStub == \E r \in Reqs : ReceiveStub(r)

SpecStub == Init /\ [][NextStub]_vars

\* ------------------------------------------------------------------ the signature check alone
\* verifyShopifyWebhook applied to a body, a header and a secret of any origin.
Bodies == {"order1", "order2", "tampered", ""}
Secrets == {"whsec", "guess", "rotated"}

SigHeaders(b, s) ==
    { hmacBase64(bb, ss) : bb \in Bodies, ss \in Secrets }
    \cup { <<>>, <<"h", b>>, hmacBase64(b, s) \o <<"=">> }

InitVerify ==
    /\ env = GoodEnv
    /\ order = Order("buyer@mail", <<>>)
    /\ deliveries = 1
    /\ SHOPIFY_OAUTH_TOKEN = ""
    /\ arrived = 0
    /\ metafields = NoMetafields
    /\ cards = [r \in Reqs |-> <<>>]
    /\ mailbox = [r \in Reqs |-> <<>>]
    /\ req = [r \in Reqs |-> IdleFrame]
    /\ observed = [r \in Reqs |-> NotObserved]
    /\ masked = NoMask
    /\ \E b \in Bodies, s \in Secrets :
         \E h \in SigHeaders(b, s) :
            sig = [NoSig EXCEPT !.body = b, !.header = h, !.secret = s]

Verify ==
    /\ ~sig.applied
    /\ sig' = [sig EXCEPT
                 !.applied = TRUE,
                 !.result = verifyShopifyWebhook(sig.body, sig.header, sig.secret),
                 !.result001 = verifyShopifyWebhook_part001(sig.body, sig.header, sig.secret)]
    /\ UNCHANGED <<env, SHOPIFY_OAUTH_TOKEN, order, deliveries, arrived, metafields, cards,
                   mailbox, req, observed, masked>>

NextVerify == Verify

SpecVerify == InitVerify /\ [][NextVerify]_vars

\* ------------------------------------------------------------------ maskRef alone
\* maskRef applied to a reference number of any length: the pieces of two
\* strings of 12 characters, the empty string (a missing referenceNo) included.
Samples == { <<"1", "2", "3", "4", "5", "6", "7", "8", "9", "0", "A", "B">>,
             <<"A", "B", "C", "D", "E", "F", "G", "H", "I", "J", "K", "L">> }
Refs == { SubSeq(s, i, j) : s \in Samples, i \in 1..12, j \in 0..12 }

InitMask ==
    /\ env = GoodEnv
    /\ order = Order("buyer@mail", <<>>)
    /\ deliveries = 1
    /\ SHOPIFY_OAUTH_TOKEN = ""
    /\ arrived = 0
    /\ metafields = NoMetafields
    /\ cards = [r \in Reqs |-> <<>>]
    /\ mailbox = [r \in Reqs |-> <<>>]
    /\ req = [r \in Reqs |-> IdleFrame]
    /\ observed = [r \in Reqs |-> NotObserved]
    /\ sig = NoSig
    /\ \E ref \in Refs : masked = [NoMask EXCEPT !.ref = ref]

Mask ==
    /\ ~masked.applied
    /\ masked' = [masked EXCEPT !.applied = TRUE, !.result = maskRef(masked.ref)]
    /\ UNCHANGED <<env, SHOPIFY_OAUTH_TOKEN, order, deliveries, arrived, metafields, cards,
                   mailbox, req, observed, sig>>

NextMask == Mask

SpecMask == InitMask /\ [][NextMask]_vars

\* ------------------------------------------------------------------ part_001
\* src/unnamed/part_001: the handler that issues through the Binance API and
\* mails through SendGrid. process.env as read at startup (lines 8-17).
GoodEnv_part001 ==
    [ SHOPIFY_WEBHOOK_SECRET |-> "whsec",
      SHOPIFY_SHOP_DOMAIN    |-> "shop.myshopify.com",
      SHOPIFY_ADMIN_TOKEN    |-> "shpat",
      BINANCE_API_KEY        |-> "key",
      BINANCE_API_SECRET     |-> "secret",
      SENDGRID_API_KEY       |-> "SG",
      SENDER_EMAIL           |-> "shop@shvilli.com",
      TEST_MODE              |-> "false" ]

Envs_part001 ==
    { GoodEnv_part001,
      [GoodEnv_part001 EXCEPT !.SHOPIFY_WEBHOOK_SECRET = ""],
      [GoodEnv_part001 EXCEPT !.SHOPIFY_SHOP_DOMAIN = ""],
      [GoodEnv_part001 EXCEPT !.SHOPIFY_ADMIN_TOKEN = ""],
      [GoodEnv_part001 EXCEPT !.BINANCE_API_KEY = "", !.BINANCE_API_SECRET = ""],
      [GoodEnv_part001 EXCEPT !.SENDGRID_API_KEY = ""],
      [GoodEnv_part001 EXCEPT !.SENDER_EMAIL = ""],
      [GoodEnv_part001 EXCEPT !.TEST_MODE = "true"],
      [GoodEnv_part001 EXCEPT !.TEST_MODE = "TRUE"],
      [GoodEnv_part001 EXCEPT !.TEST_MODE = "true", !.SENDGRID_API_KEY = ""],
      [GoodEnv_part001 EXCEPT !.TEST_MODE = Unset],
      [GoodEnv_part001 EXCEPT !.TEST_MODE = ""] }

\* catch (e) of lines 287-290
caught_part001(f, message) == answer(logged(f, "error", "ERROR:", message), 500, "Error")

\* lines 218-228: from the request to the first await
onRequest_part001(f, h) ==
    LET f1 == [f EXCEPT !.hdr = h]
        ok == verifyShopifyWebhook_part001(RawBody(order), h, env.SHOPIFY_WEBHOOK_SECRET)
    IN  IF env.SHOPIFY_WEBHOOK_SECRET = ""
        THEN answer(f1, 500, "Missing SHOPIFY_WEBHOOK_SECRET")
        ELSE IF env.SHOPIFY_SHOP_DOMAIN = "" \/ env.SHOPIFY_ADMIN_TOKEN = ""
        THEN answer(f1, 500, "Missing Shopify env vars")
        ELSE IF ok = "throws"
        THEN caught_part001(f1, "Input buffers must have the same byte length")
        ELSE IF ok = "false"
        THEN answer(f1, 401, "Invalid webhook signature")
        ELSE [f1 EXCEPT !.pc = "isOrderAlreadySent", !.reads = @ + 1]

\* lines 261-268: after the loop over the line items
afterLoop_part001(f) ==
    IF Len(f.allCodes) = 0
    THEN answer(logged(f, "log", "No bngc-enabled items in order:", order.id),
                200, "No giftcard items")
    ELSE IF env.SENDGRID_API_KEY = "" \/ env.SENDER_EMAIL = ""
    THEN answer(f, 500, "Missing email env vars")
    ELSE [f EXCEPT !.pc = "sendMail"]

\* lines 241-244: the loop from the k-th line item to its next await
forItems_part001(f, k) ==
    LET rest == { j \in k..Len(order.line_items) : order.line_items[j].product_id # "" }
    IN  IF rest = {}
        THEN afterLoop_part001(f)
        ELSE [f EXCEPT !.item = Min(rest), !.pc = "getProductBngc", !.reads = @ + 1]

\* lines 228-235
onIsOrderAlreadySent_part001(f, result) ==
    IF result.error
    THEN caught_part001(f, "Shopify GraphQL error")
    ELSE IF isOrderAlreadySent(result.data)
    THEN answer(logged(f, "log", "Already processed order:", order.id), 200, "Already sent")
    ELSE IF customerEmail(order) = ""
    THEN answer(f, 200, "No email")
    ELSE forItems_part001(f, 1)

\* lines 244-253: the product's metafields arrive
onGetProductBngc_part001(f, result) ==
    LET item == order.line_items[f.item]
        p == getProductBngc(result.data)
        unitAmount == itemUnitAmount(item, p.costAmount)
    IN  IF result.error
        THEN caught_part001(f, "Shopify GraphQL error")
        ELSE IF ~p.enabled
        THEN forItems_part001(f, f.item + 1)
        ELSE IF unitAmount <= 0
        THEN forItems_part001(f, f.item + 1)
        ELSE LET g == [f EXCEPT !.qty = itemQty(item), !.unitAmount = unitAmount,
                                !.amountPerCodeForEmail = <<unitAmount>>, !.i = 0]
             IN  IF g.i < g.qty THEN [g EXCEPT !.pc = "createGiftCard"]
                 ELSE forItems_part001(g, g.item + 1)

\* What the Binance API can answer: res.ok and the JSON body {success, data}.
BinanceResponses(r, n) ==
    LET c == <<Card(r, n, "live")>>
        none == [ok |-> TRUE, success |-> FALSE, data |-> <<>>]
    IN  { [none EXCEPT !.ok = FALSE],
          [none EXCEPT !.success = TRUE,
                       !.data = <<[code |-> c, referenceNo |-> LiveRef(r, n)]>>],
          none }
        \cup
        IF n > 1 THEN {}
        ELSE { [none EXCEPT !.success = TRUE,
                            !.data = <<[code |-> c, referenceNo |-> <<>>]>>],
               [none EXCEPT !.success = TRUE,
                            !.data = <<[code |-> <<>>, referenceNo |-> LiveRef(r, n)]>>],
               [none EXCEPT !.success = TRUE] }

\* The constant TEST_MODE of the destructuring of lines 8-17: "true" when the
\* variable is not set (line 16).
TEST_MODE_part001 == IF env.TEST_MODE = Unset THEN "true" ELSE env.TEST_MODE

\* lines 116-147. network: the call reached the Binance API
createBinanceGiftCard_part001(r, n, response) ==
    IF TEST_MODE_part001 = "true"
    THEN [threw |-> FALSE, network |-> FALSE, success |-> TRUE,
          data |-> <<[code |-> <<Card(r, n, "test")>>, referenceNo |-> TestRef(r, n)]>>]
    ELSE IF ~response.ok
    THEN [threw |-> TRUE, network |-> TRUE, success |-> FALSE, data |-> <<>>]
    ELSE [threw |-> FALSE, network |-> TRUE,
          success |-> response.success, data |-> response.data]

\* result?.data?.code and result?.data?.referenceNo
resultCode(result) == IF result.data = <<>> THEN <<>> ELSE result.data[1].code
resultReferenceNo(result) == IF result.data = <<>> THEN <<>> ELSE result.data[1].referenceNo

\* lines 254-260: the issuer's answer arrives (result.threw: the call failed)
onGiftCard_part001(f, result) ==
    LET gc == [threw |-> result.threw, network |-> result.network,
               code |-> resultCode(result),
               referenceNo |-> resultReferenceNo(result)]
        f1 == [f EXCEPT !.calls = Append(@, [item |-> f.item, amount |-> f.unitAmount,
                                             gc |-> gc])]
    IN  IF result.threw
        THEN caught_part001(f1, "Binance error")
        ELSE IF ~result.success \/ resultCode(result) = <<>>
        THEN caught_part001(f1, "Giftcard failed")
        ELSE LET f2 == [f1 EXCEPT
                          !.allCodes = Append(@, resultCode(result)[1]),
                          !.maskedRefs = Append(@, maskRef(
                              IF resultReferenceNo(result) = <<>> THEN NA
                              ELSE resultReferenceNo(result))),
                          !.i = @ + 1]
             IN  IF f2.i < f2.qty THEN f2 ELSE forItems_part001(f2, f2.item + 1)

\* lines 141-163 and 276-283: SendGrid answered
onSendMail_part001(f, failed) ==
    IF failed
    THEN caught_part001(f, "SendGrid error")
    ELSE [f EXCEPT !.pc = "setOrderMetafields", !.writes = @ + 1]

\* lines 74-76 and 283-286: the mutation's answer arrives
onSetOrderMetafields_part001(f, result) ==
    IF result # "ok"
    THEN caught_part001(f, IF result = "userErrors" THEN "MetafieldsSet error"
                                                    ELSE "Shopify GraphQL error")
    ELSE answer(logged(f, "log", "SUCCESS order:", order.id), 200, "OK")

\* Every order is delivered once to a fully configured process, the sample
\* orders once under every configuration, and the redelivered orders up to
\* MaxDeliveries times.
Init_part001 ==
    /\ \/ env = GoodEnv_part001 /\ order \in Orders /\ deliveries = 1
       \/ env \in Envs_part001 /\ order \in SampleOrders /\ deliveries = 1
       \/ env = GoodEnv_part001 /\ order \in RedeliveredOrders
          /\ deliveries \in 2..MaxDeliveries
    /\ SHOPIFY_OAUTH_TOKEN = ""
    /\ arrived = 0
    /\ metafields = NoMetafields
    /\ cards = [r \in Reqs |-> <<>>]
    /\ mailbox = [r \in Reqs |-> <<>>]
    /\ req = [r \in Reqs |-> IdleFrame]
    /\ observed = [r \in Reqs |-> NotObserved]
    /\ sig = NoSig
    /\ masked = NoMask

\* A delivery of the webhook arrives (lines 217-228).
Receive_part001(r) ==
    /\ req[r].pc = "idle"
    /\ r = arrived + 1
    /\ r <= deliveries
    /\ arrived' = r
    /\ \E h \in Headers(order, env) :
         req' = [req EXCEPT ![r] = onRequest_part001(req[r], h)]
    /\ observed' = [observed EXCEPT
                       ![r].after = { r1 \in Reqs : req[r1].pc = "done" },
                       ![r].sentBefore = IF metafields.sent = "true" THEN "true" ELSE "false"]
    /\ UNCHANGED <<env, SHOPIFY_OAUTH_TOKEN, order, deliveries, metafields, cards, mailbox,
                   sig, masked>>

\* The query of isOrderAlreadySent is answered (lines 50-60, 228-241).
IsOrderAlreadySentReturns_part001(r) ==
    /\ req[r].pc = "isOrderAlreadySent"
    /\ \E error \in BOOLEAN :
         /\ req' = [req EXCEPT ![r] =
                      onIsOrderAlreadySent_part001(req[r],
                          [error |-> error, data |-> [sent |-> metafields.sent]])]
         /\ observed' = [observed EXCEPT ![r].sentRead =
                            IF error THEN "error"
                            ELSE IF metafields.sent = "true" THEN "true" ELSE "false"]
    /\ UNCHANGED <<env, SHOPIFY_OAUTH_TOKEN, order, deliveries, arrived, metafields, cards,
                   mailbox, sig, masked>>

\* The query of getProductBngc is answered (lines 79-93, 244-253).
GetProductBngcReturns_part001(r) ==
    /\ req[r].pc = "getProductBngc"
    /\ \E error \in BOOLEAN :
         /\ req' = [req EXCEPT ![r] =
                      onGetProductBngc_part001(req[r],
                          [error |-> error,
                           data |-> ProductMetafields(
                                        order.line_items[req[r].item].product_id)])]
         /\ observed' = [observed EXCEPT ![r].productRead = IF error THEN "error" ELSE "ok"]
    /\ UNCHANGED <<env, SHOPIFY_OAUTH_TOKEN, order, deliveries, arrived, metafields, cards,
                   mailbox, sig, masked>>

\* One issuance call returns (lines 108-139, 254-260).
CreateGiftCardReturns_part001(r) ==
    /\ req[r].pc = "createGiftCard"
    /\ \E response \in BinanceResponses(r, Len(req[r].calls) + 1) :
         LET result == createBinanceGiftCard_part001(r, Len(req[r].calls) + 1, response)
         IN  /\ req' = [req EXCEPT ![r] = onGiftCard_part001(req[r], result)]
             /\ cards' = IF result.network /\ result.success /\ resultCode(result) # <<>>
                         THEN [cards EXCEPT ![r] =
                                 Append(@, [code |-> resultCode(result)[1],
                                            amount |-> req[r].unitAmount,
                                            referenceNo |-> resultReferenceNo(result)])]
                         ELSE cards
    /\ UNCHANGED <<env, SHOPIFY_OAUTH_TOKEN, order, deliveries, arrived, metafields, mailbox,
                   observed, sig, masked>>

\* SendGrid answers (lines 141-163, 270-283).
SendMailReturns_part001(r) ==
    /\ req[r].pc = "sendMail"
    /\ \E failed \in BOOLEAN :
         /\ req' = [req EXCEPT ![r] = onSendMail_part001(req[r], failed)]
         /\ mailbox' = IF failed THEN mailbox
                       ELSE [mailbox EXCEPT ![r] = Append(@, buildEmail(req[r]))]
         /\ observed' = [observed EXCEPT ![r].mailResult = IF failed THEN "failed" ELSE "sent"]
    /\ UNCHANGED <<env, SHOPIFY_OAUTH_TOKEN, order, deliveries, arrived, metafields, cards,
                   sig, masked>>

\* The metafieldsSet mutation is answered (lines 63-76, 283-286).
SetOrderMetafieldsReturns_part001(r) ==
    /\ req[r].pc = "setOrderMetafields"
    /\ \E result \in {"ok", "error", "userErrors"} :
         /\ req' = [req EXCEPT ![r] = onSetOrderMetafields_part001(req[r], result)]
         /\ metafields' = IF result = "ok"
                          THEN setOrderMetafields(req[r].maskedRefs, r)
                          ELSE metafields
         /\ observed' = [observed EXCEPT ![r].writeResult = result]
    /\ UNCHANGED <<env, SHOPIFY_OAUTH_TOKEN, order, deliveries, arrived, cards, mailbox, sig,
                   masked>>

Next_part001 ==
    \/ \E r \in Reqs : Receive_part001(r)
    \/ \E r \in Reqs : IsOrderAlreadySentReturns_part001(r)
    \/ \E r \in Reqs : GetProductBngcReturns_part001(r)
    \/ \E r \in Reqs : CreateGiftCardReturns_part001(r)
    \/ \E r \in Reqs : SendMailReturns_part001(r)
    \/ \E r \in Reqs : SetOrderMetafieldsReturns_part001(r)

Spec_part001 == Init_part001 /\ [][Next_part001]_vars

\* ------------------------------------------------------------------ server.js, lines 854-1318
\* The third program of src/server.js (lines 854-1318): it issues through the
\* Binance API itself and mails through SMTP. Its shopifyGraphQL,
\* isOrderAlreadySent, getProductBngc, setOrderMetafields, maskRef,
\* sendEmailSMTP, OAuth callback and, but for the lines below, its handler
\* are those of lines 1-481 word for word, so their definitions above serve.
GoodEnv_v3 ==
    [ SHOPIFY_WEBHOOK_SECRET |-> "whsec",
      SHOPIFY_SHOP_DOMAIN    |-> "shop.myshopify.com",
      SHOPIFY_ADMIN_TOKEN    |-> "shpat",
      SHOPIFY_CLIENT_ID      |-> "",
      SHOPIFY_CLIENT_SECRET  |-> "",
      BINANCE_API_KEY        |-> "key",
      BINANCE_API_SECRET     |-> "secret",
      SMTP_USER              |-> "user",
      SMTP_PASS              |-> "pass",
      SENDER_EMAIL           |-> "shop@shvilli.com",
      TEST_MODE              |-> "false" ]

OAuthEnv_v3 ==
    [GoodEnv_v3 EXCEPT !.SHOPIFY_ADMIN_TOKEN = "",
                       !.SHOPIFY_CLIENT_ID = "client", !.SHOPIFY_CLIENT_SECRET = "csecret"]

Envs_v3 ==
    { GoodEnv_v3, OAuthEnv_v3,
      [GoodEnv_v3 EXCEPT !.SHOPIFY_WEBHOOK_SECRET = ""],
      [GoodEnv_v3 EXCEPT !.SHOPIFY_SHOP_DOMAIN = ""],
      [GoodEnv_v3 EXCEPT !.SHOPIFY_ADMIN_TOKEN = ""],
      [GoodEnv_v3 EXCEPT !.BINANCE_API_KEY = ""],
      [GoodEnv_v3 EXCEPT !.SMTP_PASS = ""],
      [GoodEnv_v3 EXCEPT !.TEST_MODE = "true"],
      [GoodEnv_v3 EXCEPT !.TEST_MODE = "TRUE", !.BINANCE_API_KEY = "",
                         !.BINANCE_API_SECRET = ""],
      [GoodEnv_v3 EXCEPT !.TEST_MODE = Unset],
      [GoodEnv_v3 EXCEPT !.TEST_MODE = ""] }

\* The constant TEST_MODE of the destructuring of lines 865-890: "true" when
\* the variable is not set (line 889).
TEST_MODE_v3 == IF env.TEST_MODE = Unset THEN "true" ELSE env.TEST_MODE

\* lines 1242-1252: from the request to the first await
onRequest_v3(f, h) ==
    LET f1 == [f EXCEPT !.hdr = h]
        ok == verifyShopifyWebhook(RawBody(order), h, env.SHOPIFY_WEBHOOK_SECRET)
    IN  IF env.SHOPIFY_WEBHOOK_SECRET = ""
        THEN answer(f1, 500, "Missing SHOPIFY_WEBHOOK_SECRET")
        ELSE IF ok = "throws"
        THEN caught(f1, "Input buffers must have the same byte length")
        ELSE IF ok = "false"
        THEN answer(f1, 401, "Invalid webhook signature")
        ELSE shopifyGraphQL(f1, "isOrderAlreadySent", "reads")

\* What the Binance API can answer: res.ok and the JSON body, of which the
\* function reads code and referenceNo. The answers without a reference number
\* are tried on the first call of a delivery.
BinanceResponses_v3(r, n) ==
    LET c == <<Card(r, n, "live")>>
        none == [ok |-> TRUE, code |-> <<>>, referenceNo |-> <<>>]
    IN  { [none EXCEPT !.ok = FALSE],
          [none EXCEPT !.code = c, !.referenceNo = LiveRef(r, n)],
          none }
        \cup
        IF n > 1 THEN {} ELSE { [none EXCEPT !.code = c] }

\* lines 1054-1093. network: the call reached the Binance API
createBinanceGiftCard(r, n, response) ==
    IF toLowerCase(TEST_MODE_v3) = "true"
    THEN [threw |-> FALSE, network |-> FALSE,
          code |-> <<Card(r, n, "test")>>, referenceNo |-> TestRef(r, n)]
    ELSE IF env.BINANCE_API_KEY = "" \/ env.BINANCE_API_SECRET = ""
    THEN [threw |-> TRUE, network |-> FALSE, code |-> <<>>, referenceNo |-> <<>>]
    ELSE IF ~response.ok
    THEN [threw |-> TRUE, network |-> TRUE, code |-> <<>>, referenceNo |-> <<>>]
    ELSE IF response.code = <<>>
    THEN [threw |-> TRUE, network |-> TRUE, code |-> <<>>, referenceNo |-> <<>>]
    ELSE [threw |-> FALSE, network |-> TRUE,
          code |-> response.code, referenceNo |-> response.referenceNo]

\* lines 1281-1285: the issuer's answer gc arrives (gc.threw: the call failed);
\* gc.code is pushed as it is
onGiftCard_v3(f, gc) ==
    LET f1 == [f EXCEPT !.calls = Append(@, [item |-> f.item, amount |-> f.unitAmount,
                                             gc |-> gc])]
    IN  IF gc.threw
        THEN caught(f1, "Binance error")
        ELSE LET f2 == [f1 EXCEPT
                          !.allCodes = Append(@, IF gc.code = <<>> THEN <<>> ELSE gc.code[1]),
                          !.maskedRefs = Append(@, maskRef(IF gc.referenceNo = <<>> THEN NA
                                                            ELSE gc.referenceNo)),
                          !.i = @ + 1]
             IN  IF f2.i < f2.qty THEN f2 ELSE forItems(f2, f2.item + 1)

\* Every order is delivered once to a fully configured process, the sample
\* orders once under every configuration, and the redelivered orders up to
\* MaxDeliveries times.
Init_v3 ==
    /\ \/ env = GoodEnv_v3 /\ order \in Orders /\ deliveries = 1
       \/ env \in Envs_v3 /\ order \in SampleOrders /\ deliveries = 1
       \/ env \in {GoodEnv_v3, OAuthEnv_v3} /\ order \in RedeliveredOrders
          /\ deliveries \in 2..MaxDeliveries
    /\ SHOPIFY_OAUTH_TOKEN = ""
    /\ arrived = 0
    /\ metafields = NoMetafields
    /\ cards = [r \in Reqs |-> <<>>]
    /\ mailbox = [r \in Reqs |-> <<>>]
    /\ req = [r \in Reqs |-> IdleFrame]
    /\ observed = [r \in Reqs |-> NotObserved]
    /\ sig = NoSig
    /\ masked = NoMask

\* A delivery of the webhook arrives (lines 1241-1250).
Receive_v3(r) ==
    /\ req[r].pc = "idle"
    /\ r = arrived + 1
    /\ r <= deliveries
    /\ arrived' = r
    /\ \E h \in Headers(order, env) : req' = [req EXCEPT ![r] = onRequest_v3(req[r], h)]
    /\ observed' = [observed EXCEPT
                       ![r].after = { r1 \in Reqs : req[r1].pc = "done" },
                       ![r].sentBefore = IF metafields.sent = "true" THEN "true" ELSE "false"]
    /\ UNCHANGED <<env, SHOPIFY_OAUTH_TOKEN, order, deliveries, metafields, cards, mailbox,
                   sig, masked>>

\* One issuance call returns (lines 1054-1093, 1281-1285).
CreateGiftCardReturns_v3(r) ==
    /\ req[r].pc = "createGiftCard"
    /\ \E response \in BinanceResponses_v3(r, Len(req[r].calls) + 1) :
         LET gc == createBinanceGiftCard(r, Len(req[r].calls) + 1, response)
         IN  /\ req' = [req EXCEPT ![r] = onGiftCard_v3(req[r], gc)]
             /\ cards' = IF gc.network /\ response.ok /\ response.code # <<>>
                         THEN [cards EXCEPT ![r] =
                                 Append(@, [code |-> response.code[1],
                                            amount |-> req[r].unitAmount,
                                            referenceNo |-> response.referenceNo])]
                         ELSE cards
    /\ UNCHANGED <<env, SHOPIFY_OAUTH_TOKEN, order, deliveries, arrived, metafields, mailbox,
                   observed, sig, masked>>

\* The other awaits of the handler (lines 1250-1308) and the OAuth callback
\* (lines 1199-1236) are those of lines 1-481.
Next_v3 ==
    \/ \E r \in Reqs : Receive_v3(r)
    \/ \E r \in Reqs : IsOrderAlreadySentReturns(r)
    \/ \E r \in Reqs : GetProductBngcReturns(r)
    \/ \E r \in Reqs : CreateGiftCardReturns_v3(r)
    \/ \E r \in Reqs : SendMailReturns(r)
    \/ \E r \in Reqs : SetOrderMetafieldsReturns(r)
    \/ OAuthCallback

Spec_v3 == Init_v3 /\ [][Next_v3]_vars

\* ------------------------------------------------------------------ part_001, fairness
\* As for lines 1-481: every call the handler of src/unnamed/part_001 awaits
\* ends, and the handler is resumed.
Fairness_part001 ==
    \A r \in Reqs :
        /\ WF_vars(IsOrderAlreadySentReturns_part001(r))
        /\ WF_vars(GetProductBngcReturns_part001(r))
        /\ WF_vars(CreateGiftCardReturns_part001(r))
        /\ WF_vars(SendMailReturns_part001(r))
        /\ WF_vars(SetOrderMetafieldsReturns_part001(r))

SpecLive_part001 == Spec_part001 /\ Fairness_part001

\* ------------------------------------------------------------------ properties
\* What the payload, the platform and the collaborators show of a delivery,
\* stated without the handler's own operators.
Answered(r) == req[r].pc = "done"
Authentic(r) == req[r].hdr = hmacBase64(RawBody(order), env.SHOPIFY_WEBHOOK_SECRET)
NoSideEffects(r) ==
    /\ req[r].calls = <<>>
    /\ cards[r] = <<>>
    /\ mailbox[r] = <<>>
    /\ req[r].writes = 0
Fulfilled(r) == req[r].allCodes # <<>> /\ mailbox[r] # <<>>

RECURSIVE Sum(_, _)
Sum(f, S) == IF S = {} THEN 0 ELSE LET x == CHOOSE x \in S : TRUE IN f[x] + Sum(f, S \ {x})
IssuedCodes == Sum([r \in Reqs |-> Len(req[r].allCodes)], Reqs)
SentEmails == Sum([r \in Reqs |-> Len(mailbox[r])], Reqs)

\* C1: over all deliveries of one paid order, at most one delivery issues gift
\* cards and sends a notification.
AtMostOneFulfilment == Cardinality({ r \in Reqs : Fulfilled(r) }) <= 1

\* Two deliveries of the same order were both fulfilled.
FulfilledTwice == \E r1, r2 \in Reqs : r1 # r2 /\ Fulfilled(r1) /\ Fulfilled(r2)

\* C2: a delivery of an order whose sent metafield was already "true" when it
\* arrived makes no issuance call, sends no notification and writes no
\* metafield; once its idempotency query has returned the flag it is answered
\* 200 "Already sent".
AlreadySentIsNoOp ==
    \A r \in Reqs :
        /\ observed[r].sentBefore = "true" => NoSideEffects(r)
        /\ observed[r].sentRead = "true" =>
              /\ NoSideEffects(r)
              /\ req[r].status = 200 /\ req[r].body = "Already sent"

AlreadySentAnswered ==
    \E r \in Reqs :
        /\ Authentic(r) /\ observed[r].sentBefore = "true" /\ observed[r].sentRead = "true"
        /\ Answered(r) /\ req[r].reads = 1

\* C3: once a delivery has recorded the fulfilment, no step of a delivery that
\* arrives afterwards changes the number of codes issued or of mails sent for
\* the order, or the order's metafields, and such a delivery, given the same
\* body and signature, ends with "Already sent".
ReplayChangesNothing ==
    [][\A r \in Reqs :
          (observed'[r].sentBefore = "true" /\ req'[r] # req[r]) =>
              /\ \E r1 \in Reqs \ {r} : observed[r1].writeResult = "ok" /\ req[r1].body = "OK"
              /\ IssuedCodes' = IssuedCodes
              /\ SentEmails' = SentEmails
              /\ cards' = cards
              /\ metafields' = metafields
              /\ (Authentic(r)' /\ Answered(r)' /\ observed'[r].sentRead # "error") =>
                    req'[r].status = 200 /\ req'[r].body = "Already sent"]_vars

ReplayedAfterSuccess ==
    \E r1, r2 \in Reqs :
        /\ r1 # r2
        /\ observed[r1].writeResult = "ok" /\ req[r1].body = "OK"
        /\ observed[r2].sentBefore = "true" /\ req[r2].body = "Already sent"
        /\ IssuedCodes = Len(req[r1].allCodes) /\ IssuedCodes > 0
        /\ SentEmails = 1

\* C4: a request whose signature does not verify is answered 401 and does
\* nothing else: no query, no issuance call, no notification, no metafield
\* written.
UnsignedIsRejected ==
    \A r \in Reqs :
        (Answered(r) /\ ~Authentic(r)) =>
            /\ req[r].status = 401
            /\ req[r].reads = 0
            /\ NoSideEffects(r)

\* A request without the header was answered 200 "OK".
UnsignedAnsweredOK ==
    \E r \in Reqs : Answered(r) /\ req[r].hdr = <<>> /\ req[r].status = 200 /\ req[r].body = "OK"

\* C5: the signature check accepts the header that is the base64 HMAC of the
\* body under the secret and no other (one made from another body or another
\* secret, one of another length, a missing one), and it never throws; this
\* holds of the check of src/server.js and of the one of src/unnamed/part_001.
VerifyAcceptsExactlyTheSignature ==
    sig.applied =>
        LET signed == sig.header = hmacBase64(sig.body, sig.secret)
        IN  /\ sig.result = (IF signed THEN "true" ELSE "false")
            /\ sig.result001 = (IF signed THEN "true" ELSE "false")

VerifiedAHeaderOfAnotherLength ==
    /\ sig.applied
    /\ Len(sig.header) # Len(hmacBase64(sig.body, sig.secret))
    /\ sig.header # <<>>
    /\ sig.result = "false"

\* C6: for an order with neither order.email nor order.customer.email no
\* delivery makes an issuance call or sends a notification, and a delivery
\* whose idempotency query found the order not sent is answered 200 "No email".
NoRecipient == order.email = "" /\ order.customer_email = ""

NoRecipientNoIssuance ==
    NoRecipient =>
        \A r \in Reqs :
            /\ NoSideEffects(r)
            /\ req[r].reads <= 1
            /\ observed[r].sentRead = "false" =>
                  req[r].status = 200 /\ req[r].body = "No email"

NoRecipientAnswered ==
    /\ NoRecipient
    /\ order.line_items # <<>>
    /\ \E r \in Reqs : Answered(r) /\ observed[r].sentRead = "false" /\ req[r].body = "No email"

\* What the payload and the product's metafields say of a line item: whether
\* it is to be issued, for which amount and how often.
Amount(item) ==
    LET cost == ProductMetafields(item.product_id).cost
    IN  IF cost # <<>> /\ cost[1] > 0 THEN cost[1] ELSE item.price
Eligible(item) ==
    /\ item.product_id # ""
    /\ ProductMetafields(item.product_id).enabled = "true"
    /\ Amount(item) > 0
Units(item) == IF item.quantity < 1 THEN 1 ELSE item.quantity

\* The amounts of the issuance calls due for line items that are all eligible.
RECURSIVE Plan(_)
Plan(items) ==
    IF items = <<>> THEN <<>>
    ELSE [k \in 1..Units(Head(items)) |-> Amount(Head(items))] \o Plan(Tail(items))

IsPrefix(s, t) == Len(s) <= Len(t) /\ s = SubSeq(t, 1, Len(s))
CallAmounts(r) == [k \in 1..Len(req[r].calls) |-> req[r].calls[k].amount]
LoopDone(r) ==
    \/ req[r].pc \in {"sendMail", "setOrderMetafields"}
    \/ mailbox[r] # <<>>
    \/ (Answered(r) /\ req[r].body \in {"OK", "No giftcard items"})

\* C7: no issuance call is made for a line item whose product is not enabled
\* or whose cost amount and price are both <= 0, and the calls a delivery makes
\* (their number, amounts and order) are those of the order with these items
\* removed.
IneligibleItemsChangeNothing ==
    \A r \in Reqs :
        /\ \A k \in 1..Len(req[r].calls) : Eligible(order.line_items[req[r].calls[k].item])
        /\ IsPrefix(CallAmounts(r), Plan(SelectSeq(order.line_items, Eligible)))
        /\ LoopDone(r) => CallAmounts(r) = Plan(SelectSeq(order.line_items, Eligible))

IneligibleItemSkipped ==
    \E r \in Reqs :
        /\ mailbox[r] # <<>>
        /\ \E j, k \in 1..Len(order.line_items) :
              /\ j < k
              /\ order.line_items[j].product_id # ""
              /\ ~Eligible(order.line_items[j])
              /\ Eligible(order.line_items[k])

\* C8: for an eligible line item of quantity q >= 1 and amount a the delivery
\* makes one issuance call per unit, each for the amount a and each yielding at
\* most one code: never more than q, and exactly q once it is past the item;
\* the notification lists the codes of all the calls, in the order of the
\* calls.
CallsOf(r, j) == SelectSeq(req[r].calls, LAMBDA c : c.item = j)
PastItem(r, j) == req[r].item > j \/ req[r].pc \in {"sendMail", "setOrderMetafields"}
                  \/ mailbox[r] # <<>>

OneCallPerUnit ==
    \A r \in Reqs :
        /\ \A j \in 1..Len(order.line_items) :
              LET item == order.line_items[j]
              IN  (Eligible(item) /\ item.quantity >= 1) =>
                     /\ \A k \in 1..Len(CallsOf(r, j)) :
                           /\ CallsOf(r, j)[k].amount = Amount(item)
                           /\ Len(CallsOf(r, j)[k].gc.code) <= 1
                     /\ Len(CallsOf(r, j)) <= item.quantity
                     /\ PastItem(r, j) =>
                           /\ Len(CallsOf(r, j)) = item.quantity
                           /\ \A k \in 1..item.quantity : CallsOf(r, j)[k].gc.code # <<>>
        /\ \A m \in 1..Len(mailbox[r]) :
              /\ Len(mailbox[r][m].codes) = Len(req[r].calls)
              /\ \A k \in 1..Len(req[r].calls) :
                    <<mailbox[r][m].codes[k]>> = req[r].calls[k].gc.code

SeveralUnitsNotified ==
    \E r \in Reqs :
        /\ Len(mailbox[r]) = 1
        /\ \E j \in 1..Len(order.line_items) :
              /\ order.line_items[j].quantity >= 2
              /\ Len(CallsOf(r, j)) = order.line_items[j].quantity
        /\ Len(mailbox[r][1].codes) >= 2
        /\ mailbox[r][1].codes[1] # mailbox[r][1].codes[2]

\* C9: when the metafieldsSet mutation of a delivery fails (the call fails or
\* the platform returns userErrors) after its notification was sent, the
\* delivery is answered 500 "Error", never 200 "OK", and the step leaves the
\* order's metafields as they were: a sent flag that was not "true" stays so.
WriteFailed(r) == observed[r].writeResult \in {"error", "userErrors"}

FailedRecordIsAnError ==
    [][\A r \in Reqs :
          (WriteFailed(r)' /\ ~WriteFailed(r)) =>
              /\ mailbox[r] # <<>> /\ mailbox'[r] = mailbox[r]
              /\ Answered(r)'
              /\ req'[r].status = 500 /\ req'[r].body # "OK"
              /\ metafields' = metafields
              /\ (\A r1 \in Reqs : observed[r1].writeResult # "ok") => metafields'.sent # "true"
      ]_vars

RecordFailedAfterNotification ==
    \E r \in Reqs :
        /\ observed[r].writeResult = "userErrors"
        /\ Len(mailbox[r]) = 1
        /\ req[r].status = 500
        /\ metafields.sent # "true"

\* C10: when an issuance call fails after the same delivery was issued at
\* least one code, the codes issued to it before are still sent to the customer
\* in a notification.
IssuedCodesReachTheCustomer ==
    \A r \in Reqs :
        (Answered(r) /\ req[r].allCodes # <<>>
           /\ req[r].calls[Len(req[r].calls)].gc.code = <<>>) =>
            \E m \in 1..Len(mailbox[r]) : mailbox[r][m].codes = req[r].allCodes

\* A delivery was answered 500 with a code issued to it and no mail sent.
IssuedCodeDiscarded ==
    \E r \in Reqs :
        /\ Answered(r) /\ req[r].status = 500
        /\ Len(req[r].calls) = 2
        /\ req[r].calls[1].gc.code # <<>> /\ cards[r] # <<>>
        /\ req[r].calls[2].gc.threw
        /\ mailbox[r] = <<>>

\* C11: when the notification of a delivery fails after codes were issued to
\* it, a line of the log carries the full list of these codes.
IssuedCodesAreLogged ==
    \A r \in Reqs :
        (observed[r].mailResult = "failed" /\ req[r].allCodes # <<>>) =>
            \E k \in 1..Len(req[r].console) : req[r].console[k].codes = req[r].allCodes

\* The mail of a delivery failed and no line of its log carries a code.
IssuedCodesMissingFromLog ==
    \E r \in Reqs :
        /\ observed[r].mailResult = "failed"
        /\ Answered(r) /\ req[r].status = 500
        /\ cards[r] # <<>> /\ req[r].allCodes # <<>>
        /\ mailbox[r] = <<>>
        /\ \A k \in 1..Len(req[r].console) : req[r].console[k].codes = <<>>

\* The reference numbers and the codes the issuer returned to a delivery, in
\* the order of its successful calls.
Successful(r) == SelectSeq(req[r].calls, LAMBDA c : ~c.gc.threw /\ c.gc.code # <<>>)
IssuedTo(r) == [k \in 1..Len(Successful(r)) |-> Successful(r)[k].gc.code[1]]
ReferencesOf(r) ==
    [k \in 1..Len(Successful(r)) |->
        IF Successful(r)[k].gc.referenceNo = <<>> THEN NA
        ELSE Successful(r)[k].gc.referenceNo]
AllIssued == UNION { { IssuedTo(r)[k] : k \in 1..Len(IssuedTo(r)) } : r \in Reqs }

\* C13: the reference_nos metafield of the order is, whenever it is written,
\* the masked reference numbers of the writing delivery's gift cards, one per
\* line: no line is a gift-card code and no line is a reference number as the
\* issuer returned it.
OnlyMaskedReferencesStored ==
    /\ metafields.sent # "true" => metafields.reference_nos = <<>>
    /\ \A r \in Reqs :
          (observed[r].writeResult = "ok" /\ metafields.sent_at = <<r>>) =>
              /\ Len(req[r].maskedRefs) = Len(ReferencesOf(r))
              /\ \A k \in 1..Len(ReferencesOf(r)) :
                    /\ req[r].maskedRefs[k] = maskRef(ReferencesOf(r)[k])
                    /\ req[r].maskedRefs[k] # ReferencesOf(r)[k]
                    /\ req[r].maskedRefs[k] \notin AllIssued
              /\ metafields.reference_nos = join(req[r].maskedRefs)
              /\ metafields.reference_nos \notin AllIssued

MaskedReferencesStored ==
    \E r \in Reqs :
        /\ observed[r].writeResult = "ok"
        /\ Len(ReferencesOf(r)) = 2
        /\ ReferencesOf(r)[1] = NA
        /\ Len(ReferencesOf(r)[2]) > 8
        /\ metafields.reference_nos =
              Stars \o <<"\n">> \o maskRef(ReferencesOf(r)[2])

\* C14: a delivery sends at most one notification; a delivery that made all
\* the issuance calls due for the order, all with success, sends one (unless a
\* product query failed or the SMTP settings are missing), and the notification
\* delivered carries every code issued to the delivery, in the order of
\* issuance, to the order's recipient.
MailAttempted(r) == req[r].pc = "sendMail" \/ observed[r].mailResult # ""
AllIssuedTo(r) ==
    /\ req[r].calls # <<>>
    /\ CallAmounts(r) = Plan(SelectSeq(order.line_items, Eligible))
    /\ Len(IssuedTo(r)) = Len(req[r].calls)
SmtpConfigured == env.SMTP_USER # "" /\ env.SMTP_PASS # "" /\ env.SENDER_EMAIL # ""

SentNeverReverts ==
    [][/\ metafields.sent = "true" => metafields'.sent = "true"
       /\ metafields' # metafields => metafields'.sent = "true"
       /\ metafields'.sent \in {"", "true"}]_vars

SentWrittenAgain ==
    /\ metafields.sent = "true"
    /\ \E r1, r2 \in Reqs :
          r1 # r2 /\ observed[r1].writeResult = "ok" /\ observed[r2].writeResult = "ok"

\* C16: maskRef gives "****" for a reference number of at most 8 characters
\* (the empty one included), and for a longer one its first 4 characters, "****"
\* and its last 4 characters; so maskRef("1234567890") = "1234****7890" and
\* maskRef("ABCDEFGH") = "****", and at most 8 characters of the reference
\* number appear in the result.
Shown(s) == Cardinality({ k \in 1..Len(s) : s[k] # "*" })

MaskRefShowsEnds ==
    masked.applied =>
        LET s == masked.ref
            m == masked.result
        IN  /\ Len(s) <= 8 => m = <<"*", "*", "*", "*">>
            /\ Len(s) > 8 =>
                  /\ Len(m) = 12
                  /\ \A k \in 1..4 : m[k] = s[k] /\ m[4 + k] = "*" /\ m[8 + k] = s[Len(s) - 4 + k]
            /\ Shown(m) <= 8
            /\ s = <<"1", "2", "3", "4", "5", "6", "7", "8", "9", "0">> =>
                  m = <<"1", "2", "3", "4", "*", "*", "*", "*", "7", "8", "9", "0">>
            /\ s = <<"A", "B", "C", "D", "E", "F", "G", "H">> => m = <<"*", "*", "*", "*">>

MaskedALongReference ==
    /\ masked.applied
    /\ masked.ref = <<"1", "2", "3", "4", "5", "6", "7", "8", "9", "0">>
    /\ masked.result = <<"1", "2", "3", "4", "*", "*", "*", "*", "7", "8", "9", "0">>

\* C17: nothing but the sent metafield it reads decides whether a delivery
\* passes the idempotency check: a delivery that reads the order as not sent
\* is never answered "Already sent" and goes on to the line items whatever the
\* other deliveries of the order are doing, and a delivery waiting for a
\* collaborator is never held back. So two overlapping deliveries can both pass
\* the check, both be issued codes and both mail the customer.
HasProduct == \E j \in 1..Len(order.line_items) : order.line_items[j].product_id # ""

NoLockBetweenDeliveries ==
    \A r \in Reqs :
        /\ observed[r].sentRead = "false" =>
              /\ req[r].body # "Already sent"
              /\ (~NoRecipient /\ HasProduct) => req[r].reads >= 2
        /\ req[r].pc = "isOrderAlreadySent" => ENABLED IsOrderAlreadySentReturns(r)
        /\ req[r].pc = "getProductBngc" => ENABLED GetProductBngcReturns(r)
        /\ req[r].pc = "createGiftCard" => ENABLED CreateGiftCardReturns(r)
        /\ req[r].pc = "sendMail" => ENABLED SendMailReturns(r)
        /\ req[r].pc = "setOrderMetafields" => ENABLED SetOrderMetafieldsReturns(r)

OverlappingDeliveriesBothFulfilled ==
    \E r1, r2 \in Reqs :
        /\ r1 < r2
        /\ r1 \notin observed[r2].after
        /\ observed[r1].sentRead = "false" /\ observed[r2].sentRead = "false"
        /\ cards[r1] # <<>> /\ cards[r2] # <<>>
        /\ Len(mailbox[r1]) = 1 /\ Len(mailbox[r2]) = 1
        /\ observed[r1].writeResult = "ok" /\ observed[r2].writeResult = "ok"

\* C18: a delivery that arrives after another delivery of the order sent its
\* notification and failed to record it, and that reads the order as not sent,
\* is not answered "Already sent": it goes on to the line items, and unless one
\* of its own collaborator calls fails it is issued codes of its own and sends
\* the customer another notification.
Codes(mails) == UNION { { mails[m].codes[k] : k \in 1..Len(mails[m].codes) } :
                        m \in 1..Len(mails) }

RedeliveryAfterFailedRecordRepeats ==
    \A r1, r2 \in Reqs :
        (/\ r1 \in observed[r2].after
         /\ observed[r1].mailResult = "sent" /\ WriteFailed(r1)
         /\ observed[r2].sentRead = "false") =>
            /\ req[r2].body # "Already sent"
            /\ req[r2].reads >= 2
            /\ (/\ Answered(r2)
                /\ observed[r2].productRead # "error"
                /\ Len(IssuedTo(r2)) = Len(req[r2].calls)
                /\ observed[r2].mailResult # "failed") =>
                   observed[r2].mailResult = "sent"
            /\ observed[r2].mailResult = "sent" =>
                   /\ SentEmails >= 2
                   /\ Codes(mailbox[r2]) # {}
                   /\ Codes(mailbox[r2]) \cap Codes(mailbox[r1]) = {}
                   /\ IssuedCodes >= Len(req[r1].allCodes) + Len(req[r2].allCodes)

RedeliveredAfterFailedRecord ==
    \E r1, r2 \in Reqs :
        /\ r1 \in observed[r2].after
        /\ observed[r1].mailResult = "sent" /\ observed[r1].writeResult = "error"
        /\ observed[r2].sentRead = "false"
        /\ observed[r2].mailResult = "sent"
        /\ SentEmails = 2

\* C19: every query to the platform of a delivery (the idempotency check and
\* every product lookup) is over before its first issuance call, so that a
\* query can fail only while no gift card was issued to the delivery.
ReadsPrecedeIssuance ==
    \A r \in Reqs :
        (req[r].pc \in {"isOrderAlreadySent", "getProductBngc"}
           \/ observed[r].sentRead = "error" \/ observed[r].productRead = "error") =>
            req[r].calls = <<>> /\ cards[r] = <<>>

\* A product lookup of a delivery failed after a gift card was issued to it.
ReadFailedAfterIssuance ==
    \E r \in Reqs :
        /\ observed[r].productRead = "error"
        /\ Answered(r) /\ req[r].status = 500
        /\ cards[r] # <<>>
        /\ mailbox[r] = <<>>

\* C20: an issuance call that fails (the call throws or its answer has no code)
\* is the last issuance call of its delivery: none follows for the remaining
\* units of the item or for the later line items, and the delivery is answered.
CallFailed(c) == c.gc.threw \/ c.gc.code = <<>>

NoCallAfterFailedCall ==
    \A r \in Reqs :
        \A k \in 1..Len(req[r].calls) :
            CallFailed(req[r].calls[k]) =>
                /\ k = Len(req[r].calls)
                /\ Answered(r)
                /\ req[r].pc # "createGiftCard"

FailedCallWithUnitsLeft ==
    \E r \in Reqs :
        /\ Len(req[r].calls) = 1
        /\ CallFailed(req[r].calls[1])
        /\ Len(Plan(SelectSeq(order.line_items, Eligible))) >= 2
        /\ Answered(r)

\* C12: a delivery is answered 200, 401 or 500. It is answered 200 exactly when
\* it ends as already sent, without a recipient, without an eligible item or
\* in full success (mail sent and fulfilment recorded); 401 only when its
\* signature does not verify, which is answered 401 unless a required setting
\* is missing; and 500 whenever one of its collaborator calls failed (a query to
\* the platform, an issuance call, the notification, the metafieldsSet
\* mutation) or the webhook secret or the shop domain is not set.
CollaboratorFailed(r) ==
    \/ observed[r].sentRead = "error"
    \/ observed[r].productRead = "error"
    \/ \E k \in 1..Len(req[r].calls) : CallFailed(req[r].calls[k])
    \/ observed[r].mailResult = "failed"
    \/ WriteFailed(r)

StatusOfOutcome ==
    \A r \in Reqs :
        Answered(r) =>
            /\ req[r].status \in {200, 401, 500}
            /\ req[r].status = 200 <=>
                  req[r].body \in {"Already sent", "No email", "No giftcard items", "OK"}
            /\ req[r].body = "Already sent" <=> observed[r].sentRead = "true"
            /\ req[r].body = "No email" <=> (observed[r].sentRead = "false" /\ NoRecipient)
            /\ req[r].body = "No giftcard items" <=>
                  /\ observed[r].sentRead = "false" /\ ~NoRecipient
                  /\ observed[r].productRead # "error"
                  /\ Plan(SelectSeq(order.line_items, Eligible)) = <<>>
            /\ req[r].body = "OK" <=> observed[r].writeResult = "ok"
            /\ req[r].body = "OK" => observed[r].mailResult = "sent" /\ AllIssuedTo(r)
            /\ req[r].status = 401 => ~Authentic(r) /\ req[r].reads = 0
            /\ ~Authentic(r) =>
                  \/ req[r].status = 401
                  \/ /\ req[r].status = 500
                     /\ \/ env.SHOPIFY_WEBHOOK_SECRET = ""
                        \/ env.SHOPIFY_SHOP_DOMAIN = ""
                        \/ env.SHOPIFY_ADMIN_TOKEN = ""
            /\ CollaboratorFailed(r) => req[r].status = 500
            /\ (env.SHOPIFY_WEBHOOK_SECRET = "" \/ env.SHOPIFY_SHOP_DOMAIN = "") =>
                  req[r].status = 500

FailureAndRejectionAnswered ==
    \E r1, r2 \in Reqs :
        /\ Answered(r1) /\ observed[r1].mailResult = "failed" /\ req[r1].status = 500
        /\ Answered(r2) /\ ~Authentic(r2) /\ req[r2].status = 401

\* C21: a delivery whose notification failed makes no metafieldsSet mutation:
\* it is answered 500 at once, and the order's sent, reference_nos and sent_at
\* are not written by it (with no other delivery of the order they are as unset
\* as before).
FailedNotificationIsNotRecorded ==
    \A r \in Reqs :
        observed[r].mailResult = "failed" =>
            /\ Answered(r) /\ req[r].status = 500
            /\ req[r].writes = 0
            /\ observed[r].writeResult = ""
            /\ metafields.sent_at # <<r>>
            /\ deliveries = 1 => metafields = NoMetafields

NotificationFailedNothingRecorded ==
    \E r \in Reqs :
        /\ observed[r].mailResult = "failed"
        /\ cards[r] # <<>>
        /\ mailbox[r] = <<>>
        /\ req[r].status = 500
        /\ metafields = NoMetafields

\* C22: a delivery makes its metafieldsSet mutation only after its own
\* notification was sent, so whenever the order's sent metafield is "true" a
\* notification carrying gift-card codes was delivered to the order's recipient
\* before, by the delivery that wrote the flag.
EmailThenPersist ==
    /\ \A r \in Reqs :
          (req[r].pc = "setOrderMetafields" \/ req[r].writes > 0
              \/ observed[r].writeResult # "") =>
              /\ observed[r].mailResult = "sent"
              /\ Len(mailbox[r]) = 1
              /\ mailbox[r][1].codes # <<>>
    /\ metafields.sent = "true" =>
          \E r \in Reqs :
              /\ observed[r].writeResult = "ok" /\ metafields.sent_at = <<r>>
              /\ Len(mailbox[r]) = 1
              /\ mailbox[r][1].codes = IssuedTo(r) /\ IssuedTo(r) # <<>>
              /\ mailbox[r][1].to \in {order.email, order.customer_email} \ {""}

NotifiedThenRecorded ==
    \E r \in Reqs :
        /\ metafields.sent = "true" /\ metafields.sent_at = <<r>>
        /\ observed[r].mailResult = "sent"
        /\ Len(mailbox[r][1].codes) >= 2

\* The line items the issuance calls of a delivery are due for, from the j-th
\* line item on: each eligible item once per unit, in the order of the payload.
RECURSIVE UnitsFrom(_)
UnitsFrom(j) ==
    IF j > Len(order.line_items) THEN <<>>
    ELSE (IF Eligible(order.line_items[j])
          THEN [k \in 1..Units(order.line_items[j]) |-> j] ELSE <<>>) \o UnitsFrom(j + 1)
CallItems(r) == [k \in 1..Len(req[r].calls) |-> req[r].calls[k].item]

\* C23: the issuance calls of a delivery are made one after the other, line
\* item by line item and unit by unit, and its two lists stay parallel: after
\* every call allCodes and maskedRefs have the same length, the i-th code is the
\* code of the i-th successful call and the i-th masked reference is maskRef of
\* the reference number that same call returned.
ListsStayParallel ==
    \A r \in Reqs :
        /\ IsPrefix(CallItems(r), UnitsFrom(1))
        /\ req[r].pc = "createGiftCard" =>
              /\ req[r].i = Len(CallsOf(r, req[r].item))
              /\ req[r].i < Units(order.line_items[req[r].item])
        /\ Len(req[r].allCodes) = Len(req[r].maskedRefs)
        /\ req[r].allCodes = IssuedTo(r)
        /\ \A k \in 1..Len(req[r].maskedRefs) :
              req[r].maskedRefs[k] = maskRef(ReferencesOf(r)[k])

SeveralCodesInOrder ==
    \E r \in Reqs :
        /\ Len(req[r].allCodes) >= 3
        /\ CallItems(r)[1] = 1 /\ CallItems(r)[3] = 2
        /\ req[r].maskedRefs[1] = Stars
        /\ req[r].maskedRefs[2] # req[r].maskedRefs[3]
        /\ req[r].maskedRefs[2] # Stars

\* C24: the order's sent, reference_nos and sent_at are written together by
\* one metafieldsSet mutation: either none of the three is set, or sent is
\* "true" and reference_nos and sent_at are those of the same delivery's
\* mutation.
WrittenTogether ==
    /\ \/ metafields = NoMetafields
       \/ /\ metafields.sent = "true"
          /\ metafields.reference_nos # <<>>
          /\ metafields.sent_at # <<>>
    /\ metafields.sent = "true" =>
          \E r \in Reqs :
              /\ observed[r].writeResult = "ok"
              /\ req[r].writes = 1
              /\ metafields.sent_at = <<r>>
              /\ metafields.reference_nos = join(req[r].maskedRefs)

ThreeFieldsWritten ==
    \E r \in Reqs :
        /\ observed[r].writeResult = "ok"
        /\ metafields.sent = "true"
        /\ Len(req[r].maskedRefs) = 2
        /\ metafields.reference_nos = req[r].maskedRefs[1] \o <<"\n">> \o req[r].maskedRefs[2]
        /\ metafields.sent_at = <<r>>

NoEligibleItemIsNoOp ==
    /\ SelectSeq(order.line_items, Eligible) = <<>> =>
          /\ metafields = NoMetafields
          /\ \A r \in Reqs :
                /\ NoSideEffects(r)
                /\ req[r].pc \notin {"createGiftCard", "sendMail", "setOrderMetafields"}
                /\ observed[r].mailResult = "" /\ observed[r].writeResult = ""
                /\ (/\ Answered(r) /\ observed[r].sentRead = "false" /\ ~NoRecipient
                    /\ observed[r].productRead # "error") =>
                       req[r].status = 200 /\ req[r].body = "No giftcard items"
    /\ \A r \in Reqs :
          /\ \A m \in 1..Len(mailbox[r]) : mailbox[r][m].codes # <<>>
          /\ req[r].pc = "sendMail" => req[r].allCodes # <<>>
          /\ req[r].body = "No giftcard items" => NoSideEffects(r)

NoEligibleItemAnswered ==
    \E r \in Reqs :
        /\ Len(order.line_items) = 2
        /\ SelectSeq(order.line_items, Eligible) = <<>>
        /\ req[r].reads = 3
        /\ req[r].status = 200 /\ req[r].body = "No giftcard items"

\* C27: every issuance call for a line item carries the product's cost amount
\* when that is greater than 0 and otherwise (cost amount missing, zero or
\* negative) the item's price; the amount of a call is greater than 0, and no
\* call is made for an item whose amount so resolved is <= 0.
UnitAmountIsCostOrPrice ==
    \A r \in Reqs :
        /\ \A k \in 1..Len(req[r].calls) :
              LET item == order.line_items[req[r].calls[k].item]
                  cost == ProductMetafields(item.product_id).cost
                  amount == req[r].calls[k].amount
              IN  /\ amount > 0
                  /\ (cost # <<>> /\ cost[1] > 0) => amount = cost[1]
                  /\ (cost = <<>> \/ cost[1] <= 0) => amount = item.price
        /\ \A k \in 1..Len(cards[r]) :
              \E j \in 1..Len(order.line_items) : cards[r][k].amount = Amount(order.line_items[j])
        /\ \A j \in 1..Len(order.line_items) :
              Amount(order.line_items[j]) <= 0 => CallsOf(r, j) = <<>>
        /\ req[r].pc = "createGiftCard" =>
              req[r].unitAmount = Amount(order.line_items[req[r].item])

CostAndPriceBothUsed ==
    \E r \in Reqs :
        /\ Len(req[r].calls) = 2
        /\ ProductMetafields(order.line_items[1].product_id).cost = <<-5>>
        /\ req[r].calls[1].amount = 10
        /\ ProductMetafields(order.line_items[2].product_id).cost = <<5>>
        /\ order.line_items[2].price = 10
        /\ req[r].calls[2].amount = 5
        /\ Len(cards[r]) = 2

\* C28: the amount per code a notification shows is the unit amount of the
\* last eligible line item of the order, whatever the amounts of the codes
\* issued for the items before it.
AmountOfLastItemShown ==
    \A r \in Reqs :
        \A m \in 1..Len(mailbox[r]) :
            LET survivors == SelectSeq(order.line_items, Eligible)
            IN  /\ survivors # <<>>
                /\ mailbox[r][m].amountPerCode = <<Amount(survivors[Len(survivors)])>>
                /\ mailbox[r][m].amountPerCode = <<req[r].calls[Len(req[r].calls)].amount>>

OtherAmountIssuedBefore ==
    \E r \in Reqs :
        /\ Len(mailbox[r]) = 1
        /\ mailbox[r][1].amountPerCode = <<5>>
        /\ req[r].calls[1].amount = 10
        /\ Len(mailbox[r][1].codes) = Len(req[r].calls)

\* The sandbox is configured: the variable TEST_MODE is set to "true", in
\* whatever case.
SandboxConfigured == env.TEST_MODE \in {"true", "TRUE"}
TestCodePrefix == <<"T", "E", "S", "T", "-", "C", "O", "D", "E", "-">>
TestRefPrefix == <<"T", "E", "S", "T", "-", "R", "E", "F", "-">>

\* C29: with the sandbox configured every issuance call returns a code that
\* starts with TEST-CODE- and a reference number that starts with TEST-REF-,
\* none fails, and none reaches the issuer (the worker or the payment network):
\* no gift card is created, whether the issuer's credentials are set or not.
SandboxNeverCallsOut ==
    SandboxConfigured =>
        \A r \in Reqs :
            /\ cards[r] = <<>>
            /\ \A k \in 1..Len(req[r].calls) :
                  LET gc == req[r].calls[k].gc
                  IN  /\ ~gc.network /\ ~gc.threw
                      /\ gc.code # <<>>
                      /\ IsPrefix(TestCodePrefix, gc.code[1])
                      /\ IsPrefix(TestRefPrefix, gc.referenceNo)
            /\ \A k \in 1..Len(req[r].allCodes) : IsPrefix(TestCodePrefix, req[r].allCodes[k])

SandboxWithoutCredentials ==
    \E r \in Reqs :
        /\ env.TEST_MODE = "TRUE"
        /\ env.BNGC_WORKER_URL = "" /\ env.BNGC_WORKER_SECRET = ""
        /\ Len(req[r].calls) >= 2
        /\ Len(mailbox[r]) = 1
        /\ cards[r] = <<>>

\* C30: in a process started without the variable TEST_MODE every issuance
\* call takes the live path: it goes to the issuer and never returns a
\* synthetic code.
SandboxOnlyWhenConfigured ==
    env.TEST_MODE = Unset =>
        \A r \in Reqs :
            \A k \in 1..Len(req[r].calls) :
                LET gc == req[r].calls[k].gc
                IN  /\ gc.network
                    /\ gc.code # <<>> => ~IsPrefix(TestCodePrefix, gc.code[1])

\* A process started without TEST_MODE mailed the customer a synthetic code,
\* recorded the order as sent and never called the issuer.
SyntheticCodeWithoutSetting ==
    \E r \in Reqs :
        /\ env.TEST_MODE = Unset
        /\ env.BINANCE_API_KEY # "" /\ env.BINANCE_API_SECRET # ""
        /\ Len(mailbox[r]) = 1
        /\ IsPrefix(TestCodePrefix, mailbox[r][1].codes[1])
        /\ cards[r] = <<>>
        /\ req[r].status = 200 /\ req[r].body = "OK"
        /\ metafields.sent = "true"

\* The delivery ended in the report of a missing setting: one of the answers
\* "Missing ...", the error of shopifyGraphQL or sendEmailSMTP about its
\* settings, or an issuance call that threw before it reached the issuer.
ConfigurationErrorReported(r) ==
    /\ Answered(r) /\ req[r].status = 500
    /\ \/ req[r].body \in {"Missing SHOPIFY_WEBHOOK_SECRET", "Missing SHOPIFY_SHOP_DOMAIN",
                           "Missing Shopify token", "Missing Shopify env vars",
                           "Missing email env vars"}
       \/ /\ req[r].console # <<>>
          /\ req[r].console[Len(req[r].console)].detail \in
                {"Missing SMTP env vars", "Missing/invalid SHOPIFY_SHOP_DOMAIN",
                 "Missing Shopify token"}
       \/ /\ req[r].calls # <<>>
          /\ req[r].calls[Len(req[r].calls)].gc.threw
          /\ ~req[r].calls[Len(req[r].calls)].gc.network

\* C31: a delivery that fails for a missing setting (webhook secret, shop
\* domain or token, issuer settings, mail settings) has been issued no gift
\* card when the error is reported.
ConfigurationErrorsComeFirst ==
    \A r \in Reqs :
        ConfigurationErrorReported(r) => cards[r] = <<>> /\ req[r].allCodes = <<>>

\* A delivery was issued gift cards and then failed for the missing SMTP
\* settings: no mail, nothing recorded.
CardsIssuedBeforeMailSettingsChecked ==
    \E r \in Reqs :
        /\ env.SMTP_PASS = ""
        /\ Answered(r) /\ req[r].status = 500
        /\ req[r].console[Len(req[r].console)].detail = "Missing SMTP env vars"
        /\ Len(cards[r]) >= 2
        /\ mailbox[r] = <<>>
        /\ metafields = NoMetafields

\* C32: in a process started without the webhook secret every delivery,
\* whatever its signature header (the HMAC of the body under the empty secret
\* included), is answered 500 "Missing SHOPIFY_WEBHOOK_SECRET" in the step it
\* arrives in, never 401 and never accepted: it makes no query, no issuance
\* call, sends no notification and writes no metafield.
EmptySecretRefusesAll ==
    env.SHOPIFY_WEBHOOK_SECRET = "" =>
        /\ metafields = NoMetafields
        /\ \A r \in Reqs :
              /\ req[r].pc \in {"idle", "done"}
              /\ req[r].reads = 0
              /\ NoSideEffects(r)
              /\ req[r].console = <<>>
              /\ Answered(r) =>
                    req[r].status = 500 /\ req[r].body = "Missing SHOPIFY_WEBHOOK_SECRET"

SignedWithEmptySecretRefused ==
    \E r \in Reqs :
        /\ env.SHOPIFY_WEBHOOK_SECRET = ""
        /\ req[r].hdr = hmacBase64(RawBody(order), "")
        /\ Answered(r) /\ req[r].status = 500

\* The lines of a text.
Lines(s) ==
    LET cut == {0, Len(s) + 1} \cup { i \in 1..Len(s) : s[i] = "\n" }
    IN  { SubSeq(s, a + 1, b - 1) :
            <<a, b>> \in { p \in cut \X cut :
                             p[1] < p[2] /\ ~\E c \in cut : p[1] < c /\ c < p[2] } }

\* C33: whenever the order's sent metafield is "true", its reference_nos holds
\* the masked reference number of every code mailed to the customer for the
\* order, by whichever delivery.
EveryMailedCodeHasItsProof ==
    metafields.sent = "true" =>
        \A r \in Reqs :
            \A m \in 1..Len(mailbox[r]) :
                \A k \in 1..Len(mailbox[r][m].codes) :
                    maskRef(ReferencesOf(r)[k]) \in Lines(metafields.reference_nos)

\* Two deliveries of the order mailed the customer a code each, and the
\* reference_nos written last holds the reference of one of the two only.
ProofOfFirstMailLost ==
    \E r1, r2 \in Reqs :
        /\ r1 # r2
        /\ Len(mailbox[r1]) = 1 /\ Len(mailbox[r2]) = 1
        /\ metafields.sent = "true" /\ metafields.sent_at = <<r2>>
        /\ maskRef(ReferencesOf(r2)[1]) \in Lines(metafields.reference_nos)
        /\ maskRef(ReferencesOf(r1)[1]) \notin Lines(metafields.reference_nos)

\* The settings a delivery needs from the environment are all there.
FullyConfigured ==
    /\ env.SHOPIFY_WEBHOOK_SECRET # ""
    /\ normalizeShopDomain(env.SHOPIFY_SHOP_DOMAIN) # ""
    /\ safeToken(env.SHOPIFY_ADMIN_TOKEN) # ""
    /\ SmtpConfigured
    /\ \/ env.TEST_MODE \in {"true", "TRUE"}
       \/ env.BNGC_WORKER_URL # "" /\ env.BNGC_WORKER_SECRET # ""

\* The delivery ended in full success.
Done(r) ==
    /\ Answered(r) /\ req[r].status = 200 /\ req[r].body = "OK"
    /\ AllIssuedTo(r)
    /\ Len(mailbox[r]) = 1 /\ mailbox[r][1].codes = IssuedTo(r)
    /\ observed[r].writeResult = "ok"
    /\ metafields.sent = "true"
    /\ metafields.sent_at = <<r>> => metafields.reference_nos = join(req[r].maskedRefs)

\* C34: a correctly signed delivery of an order with a recipient and an
\* eligible line item to a fully configured process is eventually answered,
\* and unless it read the order as already sent or one of its collaborator
\* calls failed it then has all its codes issued, one notification sent, sent
\* = "true" recorded with the masked references, and the answer 200 "OK".
AuthenticDeliveryCompletes ==
    \A r \in Reqs :
        (/\ req[r].pc # "idle" /\ Authentic(r)
         /\ FullyConfigured /\ ~NoRecipient
         /\ SelectSeq(order.line_items, Eligible) # <<>>)
        ~> (/\ Answered(r)
            /\ \/ observed[r].sentRead = "true"
               \/ CollaboratorFailed(r)
               \/ Done(r))

SeveralItemsDone ==
    \E r \in Reqs :
        /\ Authentic(r) /\ FullyConfigured
        /\ Done(r)
        /\ ~CollaboratorFailed(r)
        /\ Len(SelectSeq(order.line_items, Eligible)) = 2
        /\ Len(req[r].allCodes) >= 3

\* The statement of C34 for the handler of src/unnamed/part_001, whose settings
\* are those of SendGrid.
AuthenticDeliveryCompletes_part001 ==
    \A r \in Reqs :
        (/\ req[r].pc # "idle" /\ Authentic(r)
         /\ env.SHOPIFY_WEBHOOK_SECRET # "" /\ env.SHOPIFY_SHOP_DOMAIN # ""
         /\ env.SHOPIFY_ADMIN_TOKEN # ""
         /\ env.SENDGRID_API_KEY # "" /\ env.SENDER_EMAIL # ""
         /\ ~NoRecipient
         /\ SelectSeq(order.line_items, Eligible) # <<>>)
        ~> (/\ Answered(r)
            /\ \/ observed[r].sentRead = "true"
               \/ CollaboratorFailed(r)
               \/ Done(r))


\* ------------------------------------------------------------------ C35
\* The phases of a request in the order of the handler's text, and the place of
\* a request inside the loop over the line items.
Phase(f) ==
    CASE f.pc = "idle" -> 0
      [] f.pc = "isOrderAlreadySent" -> 1
      [] f.pc \in {"getProductBngc", "createGiftCard"} -> 2
      [] f.pc = "sendMail" -> 3
      [] f.pc = "setOrderMetafields" -> 4
      [] f.pc = "done" -> 5
      [] OTHER -> 6

InLoop(f) == f.pc \in {"getProductBngc", "createGiftCard"}

LoopBefore(f, g) ==
    \/ f.item < g.item
    \/ f.item = g.item /\ f.pc = "getProductBngc" /\ g.pc = "createGiftCard"
    \/ f.item = g.item /\ f.pc = "createGiftCard" /\ g.pc = "createGiftCard" /\ f.i < g.i

TerminalOutcomes ==
    { <<200, "OK">>, <<200, "Already sent">>, <<200, "No email">>,
      <<200, "No giftcard items">>, <<401, "Invalid webhook signature">>,
      <<500, "Missing SHOPIFY_WEBHOOK_SECRET">>, <<500, "Missing SHOPIFY_SHOP_DOMAIN">>,
      <<500, "Missing Shopify token">>, <<500, "Error">> }

Advances(r) ==
    /\ Phase(req[r]') >= Phase(req[r])
    /\ req[r]' # req[r] /\ InLoop(req[r]) /\ InLoop(req[r]') => LoopBefore(req[r], req[r]')
    /\ req[r]' # req[r] /\ ~InLoop(req[r]) => Phase(req[r]') > Phase(req[r])
    /\ req[r].item <= Len(order.line_items) /\ req[r].i <= req[r].qty
    /\ Answered(r) => req[r]' = req[r]
    /\ Answered(r)' => <<req[r].status, req[r].body>>' \in TerminalOutcomes
    /\ ~Answered(r)' => req[r].status' = IdleFrame.status /\ req[r].body' = IdleFrame.body

\* C35: a request never goes back to an earlier phase nor to an earlier place
\* of the loop over the line items, it is answered once, with one of the
\* handler's outcomes, nothing of it changes after the answer, and, every
\* awaited call ending, every request received is answered.
EveryRequestEndsOnce ==
    /\ [][\A r \in Reqs : Advances(r)]_vars
    /\ \A r \in Reqs : (req[r].pc # "idle") ~> Answered(r)

\* a request over two line items, the first of several units, is answered
\* after the whole course of the handler
LongestCourseAnswered ==
    \E r \in Reqs :
        /\ Answered(r)
        /\ Len(order.line_items) = MaxItems
        /\ Len(CallsOf(r, 1)) = MaxQty
        /\ Len(CallsOf(r, MaxItems)) >= 1
        /\ req[r].writes = 1


\* ------------------------------------------------------------------ C36
\* C36: for an eligible line item whose quantity is missing, zero or negative
\* the delivery never makes more than one issuance call, and it has made
\* exactly one, for the item's amount, once it is past the item.
NonPositiveQuantityIssuesOne ==
    \A r \in Reqs :
        \A j \in 1..Len(order.line_items) :
            LET item == order.line_items[j]
            IN  (Eligible(item) /\ item.quantity <= 0) =>
                   /\ Len(CallsOf(r, j)) <= 1
                   /\ PastItem(r, j) =>
                         /\ Len(CallsOf(r, j)) = 1
                         /\ CallsOf(r, j)[1].amount = Amount(item)

\* a line item of negative quantity was issued once and its code mailed
NegativeQuantityIssuedOnce ==
    \E r \in Reqs :
        \E j \in 1..Len(order.line_items) :
            /\ Eligible(order.line_items[j])
            /\ order.line_items[j].quantity < 0
            /\ Len(CallsOf(r, j)) = 1
            /\ Len(mailbox[r]) = 1
            /\ Len(mailbox[r][1].codes) = Len(req[r].calls)


\* ------------------------------------------------------------------ C37
\* C37: an issuance call that yields no code, the issuer having reported
\* success or not, is the last call of its delivery: the delivery is answered
\* 500 "Error", it has sent no notification and written no metafield, and its
\* list of codes holds the codes of the calls before; no code of the list and
\* no code of a notification is empty.
CodelessAnswerIsFailure ==
    \A r \in Reqs :
        /\ \A k \in 1..Len(req[r].calls) :
              req[r].calls[k].gc.code = <<>> =>
                 /\ k = Len(req[r].calls)
                 /\ Answered(r) /\ req[r].status = 500 /\ req[r].body = "Error"
                 /\ mailbox[r] = <<>>
                 /\ req[r].writes = 0
                 /\ Len(req[r].allCodes) = k - 1
        /\ \A k \in 1..Len(req[r].allCodes) : req[r].allCodes[k] # <<>>
        /\ \A m \in 1..Len(mailbox[r]) :
              \A k \in 1..Len(mailbox[r][m].codes) : mailbox[r][m].codes[k] # <<>>

\* after a call that yielded a code the issuer answered without failure and
\* without a code, and the delivery was answered 500
SecondAnswerWithoutCode ==
    \E r \in Reqs :
        /\ Len(req[r].calls) = 2
        /\ req[r].calls[1].gc.code # <<>>
        /\ ~req[r].calls[2].gc.threw
        /\ req[r].calls[2].gc.network
        /\ req[r].calls[2].gc.code = <<>>
        /\ Answered(r) /\ req[r].status = 500
        /\ Len(cards[r]) = 1

====
